---- MODULE Spec2Model ----
(***************************************************************************)
(* Model of debian_bundle/changelog.py: the Version identifier, the        *)
(* ChangeBlock entry, the Changelog document and its line-oriented parser. *)
(*                                                                         *)
(* Text is modelled as TLA+ strings, one character per position; Python's  *)
(* None is the value None below.  Regular expressions are kept as pattern   *)
(* trees and run by a backtracking matcher that tries alternatives in the  *)
(* order Python's re module tries them, so that captured groups are the    *)
(* groups Python captures.                                                 *)
(***************************************************************************)
EXTENDS Integers, Sequences, FiniteSets, TLC

(***************************************************************************)
(* Python values and string helpers                                        *)
(***************************************************************************)

\* Python's None; no text of the model contains "<" followed by "None>".
None == "<None>"

\* Python truthiness of an optional string: None and "" are false.
Truthy(x) == x # None /\ x # ""

\* The character of s at position i (1-based), "" outside s.
Char(s, i) == IF i >= 1 /\ i <= Len(s) THEN SubSeq(s, i, i) ELSE ""

LowerLetters == "abcdefghijklmnopqrstuvwxyz"
UpperLetters == "ABCDEFGHIJKLMNOPQRSTUVWXYZ"
DigitChars == "0123456789"

\* The set of the characters of a string.
CharsOf(s) == {SubSeq(s, i, i) : i \in 1..Len(s)}

Lowers == CharsOf(LowerLetters)
Uppers == CharsOf(UpperLetters)
Digits == CharsOf(DigitChars)

\* \w, \d and \s of Python 2's re module without LOCALE or UNICODE
\* (\v cannot be written as a TLA+ string and is left out of \s).
WordChars == Lowers \cup Uppers \cup Digits \cup {"_"}
SpaceChars == {" ", "\t", "\n", "\r", "\f"}

\* str.lower() and str.upper() on one character.
LowerChar(c) ==
  IF c \in Uppers
  THEN LET i == CHOOSE k \in 1..Len(UpperLetters) : Char(UpperLetters, k) = c
       IN Char(LowerLetters, i)
  ELSE c

UpperChar(c) ==
  IF c \in Lowers
  THEN LET i == CHOOSE k \in 1..Len(LowerLetters) : Char(LowerLetters, k) = c
       IN Char(UpperLetters, i)
  ELSE c

RECURSIVE Lower(_)
Lower(s) == IF s = "" THEN "" ELSE LowerChar(Head(s)) \o Lower(Tail(s))

RECURSIVE Upper(_)
Upper(s) == IF s = "" THEN "" ELSE UpperChar(Head(s)) \o Upper(Tail(s))

(***************************************************************************)
(* Regular expressions: pattern trees                                      *)
(***************************************************************************)

\* One character out of the set cs.
InSet(cs) == [k |-> "set", neg |-> FALSE, cs |-> cs]
\* One character not in the set cs ([^...]).
NotInSet(cs) == [k |-> "set", neg |-> TRUE, cs |-> cs]
\* The literal character c.
Lit(c) == InSet({c})
\* The literal character c under re.IGNORECASE.
LitI(c) == InSet({LowerChar(c), UpperChar(c)})
\* "." : any character but a newline.
Dot == NotInSet({"\n"})
\* "^" under match(): the start of the string.
Bol == [k |-> "bol"]
\* "$" without MULTILINE: the end of the string, or just before a final newline.
Eol == [k |-> "eol"]
\* Concatenation of the patterns of the sequence rs.
Cat(rs) == [k |-> "cat", rs |-> rs]
\* Repetition of r between lo and hi times (hi = -1: unbounded), greedy or lazy.
Rep(r, lo, hi, greedy) == [k |-> "rep", r |-> r, lo |-> lo, hi |-> hi, greedy |-> greedy]
Star(r) == Rep(r, 0, -1, TRUE)
Plus(r) == Rep(r, 1, -1, TRUE)
PlusLazy(r) == Rep(r, 1, -1, FALSE)
Opt(r) == Rep(r, 0, 1, TRUE)
Times(r, lo, hi) == Rep(r, lo, hi, TRUE)
\* Capturing group number n.
Grp(n, r) == [k |-> "grp", n |-> n, r |-> r]
\* a|b, a tried first.
Alt(a, b) == [k |-> "alt", a |-> a, b |-> b]
\* End of capturing group n opened at position b (used by the matcher only).
Close(n, b) == [k |-> "close", n |-> n, b |-> b]

\* A literal string, case-sensitive or under re.IGNORECASE.
RECURSIVE LitSeq(_, _)
LitSeq(s, ci) ==
  IF s = "" THEN <<>>
  ELSE <<IF ci THEN LitI(Head(s)) ELSE Lit(Head(s))>> \o LitSeq(Tail(s), ci)

Str(s) == Cat(LitSeq(s, FALSE))
StrI(s) == Cat(LitSeq(s, TRUE))

(***************************************************************************)
(* The backtracking matcher                                                *)
(***************************************************************************)

\* Number of capturing groups the matcher keeps.
NoGroup == <<0, 0>>
NoCaps == [n \in 1..6 |-> NoGroup]
NoMatch == [ok |-> FALSE, end |-> 0, caps |-> NoCaps]

\* The number of consecutive characters of s from position i on that the
\* one-character pattern r matches.
Span(r, s, i) ==
  LET stops == {p \in i..Len(s) : (Char(s, p) \in r.cs) = r.neg}
  IN IF stops = {} THEN Len(s) + 1 - i
     ELSE (CHOOSE p \in stops : \A q \in stops : p <= q) - i

\* ks is the sequence of patterns still to be matched from position i of s;
\* the result is the first match in backtracking order.  A repetition of a
\* one-character pattern takes the largest count (the smallest if lazy) for
\* which the rest matches, which is the count backtracking ends with.
RECURSIVE Run(_, _, _, _)
Run(ks, s, i, caps) ==
  IF ks = <<>> THEN [ok |-> TRUE, end |-> i, caps |-> caps]
  ELSE
    LET r == Head(ks)
        rest == Tail(ks)
    IN CASE r.k = "set" ->
              IF i <= Len(s) /\ ((Char(s, i) \in r.cs) # r.neg)
              THEN Run(rest, s, i + 1, caps)
              ELSE NoMatch
         [] r.k = "bol" -> IF i = 1 THEN Run(rest, s, i, caps) ELSE NoMatch
         [] r.k = "eol" ->
              IF i = Len(s) + 1 \/ (i = Len(s) /\ Char(s, i) = "\n")
              THEN Run(rest, s, i, caps)
              ELSE NoMatch
         [] r.k = "cat" -> Run(r.rs \o rest, s, i, caps)
         [] r.k = "grp" -> Run(<<r.r, Close(r.n, i)>> \o rest, s, i, caps)
         [] r.k = "close" ->
              Run(rest, s, i, [caps EXCEPT ![r.n] = <<r.b, i>>])
         [] r.k = "alt" ->
              LET first == Run(<<r.a>> \o rest, s, i, caps)
              IN IF first.ok THEN first ELSE Run(<<r.b>> \o rest, s, i, caps)
         [] r.k = "rep" /\ r.r.k = "set" ->
              LET span == Span(r.r, s, i)
                  most == IF r.hi >= 0 /\ r.hi < span THEN r.hi ELSE span
                  fits == {j \in r.lo..most : Run(rest, s, i + j, caps).ok}
                  take == IF r.greedy
                          THEN CHOOSE j \in fits : \A q \in fits : q <= j
                          ELSE CHOOSE j \in fits : \A q \in fits : j <= q
              IN IF fits = {} THEN NoMatch ELSE Run(rest, s, i + take, caps)
         [] r.k = "rep" /\ r.r.k # "set" ->
              LET more == Run(<<r.r,
                                Rep(r.r,
                                    IF r.lo > 0 THEN r.lo - 1 ELSE 0,
                                    IF r.hi > 0 THEN r.hi - 1 ELSE r.hi,
                                    r.greedy)>> \o rest, s, i, caps)
                  stop == Run(rest, s, i, caps)
              IN IF r.hi = 0 THEN stop
                 ELSE IF r.lo > 0 THEN more
                 ELSE IF r.greedy
                      THEN (IF more.ok THEN more ELSE stop)
                      ELSE (IF stop.ok THEN stop ELSE more)

\* pattern.match(s): the match anchored at the start of s.
Match(re, s) == Run(<<re>>, s, 1, NoCaps)

\* m.group(n): the text of group n, None when the group took no part.
Group(m, s, n) ==
  IF m.caps[n] = NoGroup THEN None
  ELSE SubSeq(s, m.caps[n][1], m.caps[n][2] - 1)

(***************************************************************************)
(* Version                                                                 *)
(***************************************************************************)

\* Longest text handed to Version(...) or assigned to full_version.
MaxLen == 3
\* Longest text assigned to epoch, upstream_version or debian_version.
MaxComp == 2
\* Longest full_version the model lets a component assignment build.
MaxFull == 5

\* The characters the version texts are drawn from: two digits (zero and
\* non-zero), the two separators, and two characters outside every class of
\* the grammar.
VersionChars == {"0", "1", ":", "-", " ", "\n"}

RECURSIVE TextsOfLen(_, _)
TextsOfLen(cs, n) ==
  IF n = 0 THEN {""}
  ELSE {t \o c : t \in TextsOfLen(cs, n - 1), c \in cs}

TextsUpTo(cs, n) == UNION {TextsOfLen(cs, k) : k \in 0..n}

VersionTexts == TextsUpTo(VersionChars, MaxLen)

\* The character classes of the pattern in Version.__setattr__.
UpstreamChars == Lowers \cup Uppers \cup Digits \cup {".", "+", ":", "~", "-"}
DebianChars == Lowers \cup Uppers \cup Digits \cup {".", "~", "+"}

\* VersionPattern with a greedy upstream_version.
VersionPatternGreedy ==
  Cat(<<Bol,
        Opt(Cat(<<Grp(1, Plus(InSet(Digits))), Lit(":")>>)),
        Grp(2, Plus(InSet(UpstreamChars))),
        Opt(Cat(<<Lit("-"), Grp(3, Plus(InSet(DebianChars)))>>)),
        Eol>>)

\* p = ^(?:(?P<epoch>\d+):)?(?P<upstream_version>[A-Za-z0-9.+:~-]+?)
\*     (?:-(?P<debian_version>[A-Za-z0-9.~+]+))?$
\* groups: 1 epoch, 2 upstream_version, 3 debian_version.
VersionPattern ==
  Cat(<<Bol,
        Opt(Cat(<<Grp(1, Plus(InSet(Digits))), Lit(":")>>)),
        Grp(2, PlusLazy(InSet(UpstreamChars))),
        Opt(Cat(<<Lit("-"), Grp(3, Plus(InSet(DebianChars)))>>)),
        Eol>>)

\* A Version object: the name-mangled __asString behind full_version and the
\* three components set through object.__setattr__.
NoVersion ==
  [full_version |-> None, epoch |-> None,
   upstream_version |-> None, debian_version |-> None]

VersionAttrs == {"full_version", "epoch", "upstream_version", "debian_version"}

\* The loop over m.groupdict() and the assignment of __asString.
SetGroups(v, m, version) ==
  [full_version |-> version,
   epoch |-> Group(m, version, 1),
   upstream_version |-> Group(m, version, 2),
   debian_version |-> Group(m, version, 3)]

\* p.match(version), looked up for the texts up to MaxFull characters and
\* computed for longer ones.
VersionMatches ==
  [s \in TextsUpTo(VersionChars, MaxFull) |-> Match(VersionPattern, s)]

VersionMatch(version) ==
  IF version \in DOMAIN VersionMatches THEN VersionMatches[version]
  ELSE Match(VersionPattern, version)

\* The branch attr == 'full_version' of Version.__setattr__.
SetFullVersion(v, version) ==
  LET m == VersionMatch(version)
  IN IF ~m.ok THEN [v |-> v, exc |-> "VersionError"]
     ELSE [v |-> SetGroups(v, m, version), exc |-> "none"]

\* The dictionary d of the else branch: the assigned value for attr, the
\* object's own value for the other two components.
ComponentDict(v, attr, value) ==
  [epoch |-> IF attr = "epoch" THEN value ELSE v.epoch,
   upstream_version |->
     IF attr = "upstream_version" THEN value ELSE v.upstream_version,
   debian_version |->
     IF attr = "debian_version" THEN value ELSE v.debian_version]

\* ComposeVersion without the test d['epoch'] != '0'.
ComposeVersionKeepsZero(d) ==
  (IF Truthy(d.epoch) THEN d.epoch \o ":" ELSE "")
  \o d.upstream_version
  \o (IF Truthy(d.debian_version) THEN "-" \o d.debian_version ELSE "")

\* ComposeVersion without the debian_version part.
ComposeVersionNoRevision(d) ==
  (IF Truthy(d.epoch) /\ d.epoch # "0" THEN d.epoch \o ":" ELSE "")
  \o d.upstream_version

\* The full version built from d.
ComposeVersion(d) ==
  (IF Truthy(d.epoch) /\ d.epoch # "0" THEN d.epoch \o ":" ELSE "")
  \o d.upstream_version
  \o (IF Truthy(d.debian_version) THEN "-" \o d.debian_version ELSE "")

\* Version.__setattr__(attr, value) on the object v: the object afterwards
\* and the exception raised ("none" when the assignment returns).  TypeError
\* is what a None where the code needs a string raises (p.match(None),
\* version += None).
SetAttr(v, attr, value) ==
  IF attr \notin VersionAttrs
  THEN [v |-> v, exc |-> "AttributeError"]
  ELSE IF attr = "full_version"
  THEN (IF value = None THEN [v |-> v, exc |-> "TypeError"]
        ELSE SetFullVersion(v, value))
  ELSE LET d == ComponentDict(v, attr, value)
       IN IF d.upstream_version = None
          THEN [v |-> v, exc |-> "TypeError"]
          ELSE SetFullVersion(v, ComposeVersion(d))

\* Version(version): the new object, or the exception of the assignment of
\* full_version in __init__.
NewVersion(version) == SetAttr(NoVersion, "full_version", version)

ComponentAttrs == {"epoch", "upstream_version", "debian_version"}

\* The values assigned to a component: a text or None.
ComponentValues == TextsUpTo(VersionChars, MaxComp) \cup {None}

\* The assignment v.attr = x builds a full version of at most MaxFull
\* characters (or builds none, x being None where a string is needed).
WithinMaxFull(v, attr, x) ==
  LET d == ComponentDict(v, attr, x)
  IN d.upstream_version = None \/ Len(ComposeVersion(d)) <= MaxFull

\* ver is the Version object under study (NoVersion before it is constructed);
\* call is the last operation on it and the exception it raised.
(***************************************************************************)
(* Strings                                                                 *)
(***************************************************************************)

\* s.lstrip(): s without its leading whitespace.
RECURSIVE LStrip(_)
LStrip(s) ==
  IF s # "" /\ Head(s) \in SpaceChars THEN LStrip(Tail(s)) ELSE s

\* s.rstrip(): s without its trailing whitespace.
RECURSIVE RStrip(_)
RStrip(s) ==
  IF s # "" /\ Char(s, Len(s)) \in SpaceChars
  THEN RStrip(SubSeq(s, 1, Len(s) - 1))
  ELSE s

\* s.strip()
Strip(s) == RStrip(LStrip(s))

\* Position of the first occurrence of the character c in s at or after i,
\* 0 when there is none.
RECURSIVE Find(_, _, _)
Find(s, c, i) ==
  IF i > Len(s) THEN 0
  ELSE IF Char(s, i) = c THEN i
  ELSE Find(s, c, i + 1)

\* s.split(c): the pieces of s between the occurrences of the character c.
RECURSIVE Split(_, _)
Split(s, c) ==
  LET at == Find(s, c, 1)
  IN IF at = 0 THEN <<s>>
     ELSE <<SubSeq(s, 1, at - 1)>> \o Split(SubSeq(s, at + 1, Len(s)), c)

\* s.split(c, 1)[1]: what follows the first occurrence of c in s.
AfterFirst(s, c) == SubSeq(s, Find(s, c, 1) + 1, Len(s))

\* sep.join(ss)
RECURSIVE Join(_, _)
Join(ss, sep) ==
  IF ss = <<>> THEN ""
  ELSE IF Len(ss) = 1 THEN ss[1]
  ELSE ss[1] \o sep \o Join(Tail(ss), sep)

(***************************************************************************)
(* The patterns of the changelog grammar                                   *)
(***************************************************************************)

Space == InSet(SpaceChars)
Word == InSet(WordChars)
Digit == InSet(Digits)

\* [-+0-9a-z.] under re.IGNORECASE
NameChars == Lowers \cup Uppers \cup Digits \cup {"-", "+", "."}
\* [-0-9a-z] under re.IGNORECASE
KeyChars == Lowers \cup Uppers \cup Digits \cup {"-"}
\* [\w.+-]
WordDotChars == WordChars \cup {".", "+", "-"}

\* ^(\w[-+0-9a-z.]*) \(([^\(\) \t]+)\)((\s+[-+0-9a-z.]+)+)\;
topline ==
  Cat(<<Bol,
        Grp(1, Cat(<<Word, Star(InSet(NameChars))>>)),
        Str(" ("),
        Grp(2, Plus(NotInSet({"(", ")", " ", "\t"}))),
        Lit(")"),
        Grp(3, Plus(Grp(4, Cat(<<Plus(Space), Plus(InSet(NameChars))>>)))),
        Lit(";")>>)

\* ^\s*$
blankline == Cat(<<Bol, Star(Space), Eol>>)

\* ^\s\s+.*$
change == Cat(<<Bol, Space, Plus(Space), Star(Dot), Eol>>)

\* (.*) <(.*)>(  ?)
TrailerAuthor ==
  <<Grp(1, Star(Dot)), Str(" <"), Grp(2, Star(Dot)), Lit(">"),
    Grp(3, Cat(<<Lit(" "), Opt(Lit(" "))>>))>>

\* (\w+\,\s*)?\d{1,2}\s+\w+\s+\d{4}\s+\d{1,2}:\d\d:\d\d\s+[-+]\d{4}
\* (\s+\([^\\\(\)]\))?
TrailerDate ==
  <<Opt(Grp(5, Cat(<<Plus(Word), Lit(","), Star(Space)>>))),
    Times(Digit, 1, 2), Plus(Space), Plus(Word), Plus(Space),
    Times(Digit, 4, 4), Plus(Space),
    Times(Digit, 1, 2), Lit(":"), Digit, Digit, Lit(":"), Digit, Digit,
    Plus(Space), InSet({"-", "+"}), Times(Digit, 4, 4),
    Opt(Grp(6, Cat(<<Plus(Space), Lit("("), NotInSet({"\\", "(", ")"}),
                     Lit(")")>>)))>>

\* ^ -- (.*) <(.*)>(  ?)((\w+\,\s*)?...(\s+\([^\\\(\)]\))?\s*)$
endline ==
  Cat(<<Bol, Str(" -- ")>> \o TrailerAuthor
      \o <<Grp(4, Cat(TrailerDate \o <<Star(Space)>>)), Eol>>)

\* ^ --(?: (.*) <(.*)>(  ?)((\w+\,\s*)?...(\s+\([^\\\(\)]\))?))?\s*$
endline_nodetails ==
  Cat(<<Bol, Str(" --"),
        Opt(Cat(<<Lit(" ")>> \o TrailerAuthor \o <<Grp(4, Cat(TrailerDate))>>)),
        Star(Space), Eol>>)

\* ^([-0-9a-z]+)=\s*(.*\S)$
keyvalue ==
  Cat(<<Bol, Grp(1, Plus(InSet(KeyChars))), Lit("="), Star(Space),
        Grp(2, Cat(<<Star(Dot), NotInSet(SpaceChars)>>)), Eol>>)

\* ^([-0-9a-z]+)((\s+.*)?)$
value_re ==
  Cat(<<Bol, Grp(1, Plus(InSet(KeyChars))),
        Grp(2, Opt(Grp(3, Cat(<<Plus(Space), Star(Dot)>>)))), Eol>>)

\* ^(;;\s*)?Local variables:
emacs_variables ==
  Cat(<<Bol, Opt(Grp(1, Cat(<<Str(";;"), Star(Space)>>))),
        StrI("Local variables:")>>)

\* ^vim:
vim_variables == Cat(<<Bol, StrI("vim:")>>)

\* ^\$\w+:.*\$
cvs_keyword == Cat(<<Bol, Lit("$"), Plus(Word), Lit(":"), Star(Dot), Lit("$")>>)

\* ^\#<space>
comments == Cat(<<Bol, Str("# ")>>)

\* ^/\*.*\*/
more_comments == Cat(<<Bol, Str("/*"), Star(Dot), Str("*/")>>)

\* (<|\()(.*)(\)|>)
OldFormatAddress(n) ==
  <<Grp(n, Alt(Lit("<"), Lit("("))), Grp(n + 1, Star(Dot)),
    Grp(n + 2, Alt(Lit(")"), Lit(">")))>>

\* ^(\w+\s+\w+\s+\d{1,2} \d{1,2}:\d{1,2}:\d{1,2}\s+[\w\s]*\d{4})\s+(.*)\s+
\* (<|\()(.*)(\)|>)
old_format_re1 ==
  Cat(<<Bol,
        Grp(1, Cat(<<Plus(Word), Plus(Space), Plus(Word), Plus(Space),
                     Times(Digit, 1, 2), Lit(" "), Times(Digit, 1, 2),
                     Lit(":"), Times(Digit, 1, 2), Lit(":"),
                     Times(Digit, 1, 2), Plus(Space),
                     Star(InSet(WordChars \cup SpaceChars)),
                     Times(Digit, 4, 4)>>)),
        Plus(Space), Grp(2, Star(Dot)), Plus(Space)>> \o OldFormatAddress(3))

\* ^(\w+\s+\w+\s+\d{1,2},?\s*\d{4})\s+(.*)\s+(<|\()(.*)(\)|>)
old_format_re2 ==
  Cat(<<Bol,
        Grp(1, Cat(<<Plus(Word), Plus(Space), Plus(Word), Plus(Space),
                     Times(Digit, 1, 2), Opt(Lit(",")), Star(Space),
                     Times(Digit, 4, 4)>>)),
        Plus(Space), Grp(2, Star(Dot)), Plus(Space)>> \o OldFormatAddress(3))

\* ^(\w[-+0-9a-z.]*) \(([^\(\) \t]+)\)\;?
old_format_re3 ==
  Cat(<<Bol,
        Grp(1, Cat(<<Word, Star(InSet(NameChars))>>)),
        Str(" ("),
        Grp(2, Plus(NotInSet({"(", ")", " ", "\t"}))),
        Lit(")"), Opt(Lit(";"))>>)

\* ^([\w.+-]+)(-| )(\S+) Debian (\S+)
old_format_re4 ==
  Cat(<<Bol, Grp(1, Plus(InSet(WordDotChars))),
        Grp(2, Alt(Lit("-"), Lit(" "))),
        Grp(3, Plus(NotInSet(SpaceChars))), StrI(" Debian "),
        Grp(4, Plus(NotInSet(SpaceChars)))>>)

\* ^Changes from version (.*) to (.*):
old_format_re5 ==
  Cat(<<Bol, StrI("Changes from version "), Grp(1, Star(Dot)), StrI(" to "),
        Grp(2, Star(Dot)), Lit(":")>>)

\* ^Changes for [\w.+-]+-[\w.+-]+:?\s*$
old_format_re6 ==
  Cat(<<Bol, StrI("Changes for "), Plus(InSet(WordDotChars)), Lit("-"),
        Plus(InSet(WordDotChars)), Opt(Lit(":")), Star(Space), Eol>>)

\* ^Old Changelog:\s*$
old_format_re7 == Cat(<<Bol, StrI("Old Changelog:"), Star(Space), Eol>>)

\* ^(?:\d+:)?\w[\w.+~-]*:?\s*$
old_format_re8 ==
  Cat(<<Bol, Opt(Cat(<<Plus(Digit), Lit(":")>>)), Word,
        Star(InSet(WordDotChars \cup {"~"})), Opt(Lit(":")), Star(Space),
        Eol>>)

\* One of the eight patterns of the formats that preceded the current one.
OldFormat(line) ==
  \E re \in {old_format_re1, old_format_re2, old_format_re3, old_format_re4,
             old_format_re5, old_format_re6, old_format_re7, old_format_re8} :
    Match(re, line).ok

(***************************************************************************)
(* ChangeBlock                                                             *)
(***************************************************************************)

\* None where a list is expected: apart from every list of lines, as no
\* line is None.
NoList == <<None>>

\* The keyword arguments of ChangeBlock(...) and new_block(...), none given.
\* other_pairs is the dictionary as the sequence of its <<key, value>> items;
\* None and the empty dictionary give the same block and are both <<>>.
NoArgs ==
  [package |-> None, version |-> None, distributions |-> None,
   urgency |-> None, urgency_comment |-> None, changes |-> NoList,
   author |-> None, date |-> None, other_pairs |-> <<>>]

\* ChangeBlock.__init__ without the default of the urgency.
ChangeBlockNoDefault(kw) ==
  [_raw_version |-> kw.version,
   package |-> kw.package,
   distributions |-> kw.distributions,
   urgency |-> kw.urgency,
   urgency_comment |->
     IF Truthy(kw.urgency_comment) THEN kw.urgency_comment ELSE "",
   _changes |-> kw.changes,
   author |-> kw.author,
   date |-> kw.date,
   _trailing |-> <<>>,
   other_pairs |-> kw.other_pairs,
   _no_trailer |-> FALSE,
   _trailer_separator |-> "  "]

\* ChangeBlock.__init__ with the keyword arguments kw.
ChangeBlock(kw) ==
  [_raw_version |-> kw.version,
   package |-> kw.package,
   distributions |-> kw.distributions,
   urgency |-> IF Truthy(kw.urgency) THEN kw.urgency ELSE "unknown",
   urgency_comment |->
     IF Truthy(kw.urgency_comment) THEN kw.urgency_comment ELSE "",
   _changes |-> kw.changes,
   author |-> kw.author,
   date |-> kw.date,
   _trailing |-> <<>>,
   other_pairs |-> kw.other_pairs,
   _no_trailer |-> FALSE,
   _trailer_separator |-> "  "]

\* d[key] = value on a dictionary kept as the sequence of its items, in the
\* order in which the keys were set first.
DictSet(d, key, value) ==
  IF \E i \in 1..Len(d) : d[i][1] = key
  THEN [i \in 1..Len(d) |-> IF d[i][1] = key THEN <<key, value>> ELSE d[i]]
  ELSE Append(d, <<key, value>>)

\* add_trailing_line
add_trailing_line(b, line) == [b EXCEPT !._trailing = Append(@, line)]

\* list.reverse() and list.insert(i, x), i counted from 0.
Reverse(s) == [i \in 1..Len(s) |-> s[Len(s) + 1 - i]]
InsertAt(s, i, x) == SubSeq(s, 1, i) \o <<x>> \o SubSeq(s, i + 1, Len(s))

\* add_change that always appends.
add_change_at_end(b, note) ==
  IF b._changes = NoList THEN [b EXCEPT !._changes = <<note>>]
  ELSE [b EXCEPT !._changes = Append(@, note)]

\* ChangeBlock.add_change: in the reversed list the note is inserted at
\* the first index whose line is not blank, and the list reversed again;
\* without such an index the note is appended.
add_change(b, note) ==
  LET changes == Reverse(b._changes)
      found == {i \in 0..(Len(changes) - 1) :
                  ~Match(blankline, changes[i + 1]).ok}
      first == CHOOSE i \in found : \A j \in found : i <= j
  IN IF b._changes = NoList THEN [b EXCEPT !._changes = <<note>>]
     ELSE IF found # {}
     THEN [b EXCEPT !._changes = Reverse(InsertAt(changes, first, note))]
     ELSE [b EXCEPT !._changes = Append(Reverse(changes), note)]

\* The concatenation of the lines of ls, each followed by a newline.
RECURSIVE LinesText(_)
LinesText(ls) ==
  IF ls = <<>> THEN "" ELSE Head(ls) \o "\n" \o LinesText(Tail(ls))

\* ", key=value" for every item of other_pairs.
RECURSIVE PairsText(_)
PairsText(d) ==
  IF d = <<>> THEN ""
  ELSE ", " \o Head(d)[1] \o "=" \o Head(d)[2] \o PairsText(Tail(d))

CreateError(message) ==
  [exc |-> "ChangelogCreateError", message |-> message, text |-> None]

\* ChangeBlock.__str__ with the items of other_pairs in the order of the
\* sequence.
BlockStr(b) ==
  IF b.package = None THEN CreateError("Package not specified")
  ELSE IF b._raw_version = None THEN CreateError("Version not specified")
  ELSE IF b.distributions = None
       THEN CreateError("Distribution not specified")
  ELSE IF b.urgency = None THEN CreateError("Urgency not specified")
  ELSE IF b._changes = NoList THEN CreateError("Changes not specified")
  ELSE IF ~b._no_trailer /\ b.author = None
       THEN CreateError("Author not specified")
  ELSE IF ~b._no_trailer /\ b.date = None
       THEN CreateError("Date not specified")
  ELSE [exc |-> "none", message |-> None,
        text |->
          b.package \o " (" \o b._raw_version \o ") " \o b.distributions
          \o "; urgency=" \o b.urgency \o b.urgency_comment
          \o PairsText(b.other_pairs) \o "\n"
          \o LinesText(b._changes)
          \o (IF b._no_trailer THEN ""
              ELSE " -- " \o b.author \o b._trailer_separator \o b.date
                   \o "\n")
          \o LinesText(b._trailing)]

\* The orders in which other_pairs.items() can give the items of the
\* dictionary d: a dict keeps no order, any order is possible.
ItemOrders(d) ==
  {[i \in 1..Len(d) |-> d[f[i]]] : f \in Permutations(1..Len(d))}

\* The outcomes of ChangeBlock.__str__ on the block b.
BlockStrs(b) ==
  {BlockStr([b EXCEPT !.other_pairs = items]) :
     items \in ItemOrders(b.other_pairs)}

\* Changelog.__str__ : cl has the fields initial_blank_lines and _blocks.
RECURSIVE BlocksStr(_)
BlocksStr(bs) ==
  IF bs = <<>> THEN [exc |-> "none", message |-> None, text |-> ""]
  ELSE LET first == BlockStr(Head(bs))
           others == BlocksStr(Tail(bs))
       IN IF first.exc # "none" THEN first
          ELSE IF others.exc # "none" THEN others
          ELSE [first EXCEPT !.text = @ \o others.text]

ChangelogStr(cl) ==
  LET body == BlocksStr(cl._blocks)
  IN IF body.exc # "none" THEN body
     ELSE [body EXCEPT !.text = Join(cl.initial_blank_lines, "\n") \o @]

(***************************************************************************)
(* The lines of the input and the cached matches                           *)
(***************************************************************************)

\* The lines the input texts are made of: a heading, a heading with an extra
\* pair and an invalid pair, a blank line, a change note, a trailer, a
\* trailer with a one-space separator, an empty trailer, a comment and an
\* editor directive.
Lines ==
  {"p (1) d; urgency=low",
   "p (1) d; K=v, x",
   "",
   "  * c",
   " -- A <e>  1 J 2000 1:00:00 +0000",
   " -- A <e> 1 J 2000 1:00:00 +0000",
   " --",
   "# c",
   "vim:x"}

\* The compiled patterns by name.
Patterns ==
  [topline |-> topline, blankline |-> blankline, change |-> change,
   endline |-> endline, endline_nodetails |-> endline_nodetails,
   keyvalue |-> keyvalue, value_re |-> value_re,
   emacs_variables |-> emacs_variables, vim_variables |-> vim_variables,
   cvs_keyword |-> cvs_keyword, comments |-> comments,
   more_comments |-> more_comments]

\* The stripped pairs after the ";" of the lines that have one, and the
\* values of the pairs.
PairTexts ==
  UNION {{Strip(t) : t \in {Split(AfterFirst(l, ";"), ",")[i] :
                              i \in 1..Len(Split(AfterFirst(l, ";"), ","))}} :
         l \in {h \in Lines : Find(h, ";", 1) > 0}}

ValueTexts ==
  {Group(Match(keyvalue, t), t, 2) :
     t \in {u \in PairTexts : Match(keyvalue, u).ok}}

\* The entry before the newest one in a text of two entries.
OlderEntry ==
  <<"p (0) d; urgency=low", "  * b", " -- A <e>  1 J 1999 1:00:00 +0000">>

\* Headings with other version texts and with other pairs after the ";".
HeadVersions == {"1", "0:1-1", "1:", "1_"}
HeadPairs == {"urgency=low", "urgency=low, b=1, a=2", "urgency=low, K=v"}
HeadingLine(v, pairs) == "p (" \o v \o ") d; " \o pairs
HeadingLines ==
  {HeadingLine(v, "urgency=low") : v \in HeadVersions}
  \cup {HeadingLine("1", pairs) : pairs \in HeadPairs}

\* Lines that start slurp_to_end after a block: two of the old formats and
\* the emacs variables.
SlurpLines == {"Old Changelog:", "p (1)", ";; Local variables:"}

\* Lines kept between the blocks: a CVS keyword, a comment in C style and a
\* line of white space.
KeptLines == {"$I:$", "/**/", " "}

MatchTexts ==
  Lines \cup PairTexts \cup ValueTexts
  \cup {OlderEntry[i] : i \in 1..Len(OlderEntry)} \cup SlurpLines
  \cup KeptLines \cup HeadingLines

\* pattern.match(s) for every pattern and every text of MatchTexts.
Matches ==
  [nm \in DOMAIN Patterns |-> [s \in MatchTexts |-> Match(Patterns[nm], s)]]

OldFormats == [s \in MatchTexts |-> OldFormat(s)]

\* Patterns[nm].match(s), looked up when s is one of MatchTexts.
ReMatch(nm, s) ==
  IF s \in MatchTexts THEN Matches[nm][s] ELSE Match(Patterns[nm], s)

OldFormatMatch(s) == IF s \in MatchTexts THEN OldFormats[s] ELSE OldFormat(s)

(***************************************************************************)
(* parse_changelog                                                         *)
(***************************************************************************)

first_heading == "first heading"
next_heading_or_eof == "next heading of EOF"
start_of_change_data == "start of change data"
more_changes_or_trailer == "more change data or trailer"
slurp_to_end == "slurp to end"

\* The Changelog object (_blocks, initial_blank_lines) and the locals of
\* parse_changelog as the loop starts.  status is "running" inside the
\* loop, "raised" after an exception (exc, message), and "capped",
\* "empty" or "finished" after the return of line 311, of line 299 and at
\* the end of the function; warnings are the messages given to
\* warnings.warn; exhausted tells that the input has no further line.
StartParse ==
  [_blocks |-> <<>>, initial_blank_lines |-> <<>>,
   current_block |-> ChangeBlock(NoArgs), changes |-> <<>>,
   state |-> first_heading, old_state |-> None,
   status |-> "running", exc |-> "none", message |-> None,
   warnings |-> <<>>, exhausted |-> FALSE, held |-> {}]

\* _parse_error that raises in lenient mode too.
_parse_error_raises(p, message, strict) ==
  [p EXCEPT !.status = "raised", !.exc = "ChangelogParseError",
            !.message = message]

\* _parse_error
_parse_error(p, message, strict) ==
  IF strict
  THEN [p EXCEPT !.status = "raised", !.exc = "ChangelogParseError",
                 !.message = message]
  ELSE [p EXCEPT !.warnings = Append(@, message)]

\* self._blocks[-1].add_trailing_line(line)
AddToLastBlock(p, line) ==
  IF p._blocks = <<>>
  THEN [p EXCEPT !.status = "raised", !.exc = "IndexError"]
  ELSE [p EXCEPT !._blocks[Len(p._blocks)] = add_trailing_line(@, line)]

\* KeepLine that puts every line into initial_blank_lines.
KeepLineLeading(p, line) ==
  [p EXCEPT !.initial_blank_lines = Append(@, line)]

\* The line goes to initial_blank_lines before the first heading and to the
\* trailing lines of the last block after it.
KeepLine(p, line) ==
  IF p.state = first_heading
  THEN [p EXCEPT !.initial_blank_lines = Append(@, line)]
  ELSE AddToLastBlock(p, line)

\* The loop over the pairs carries h: h.p is the parse so far, h.all_keys
\* the lower-cased keys seen, h.other_pairs the dictionary of the pairs
\* other than the urgency.
\* The urgency pair: value and its match against value_re.
UrgencyPair(h, value, val_match, strict) ==
  IF ~val_match.ok
  THEN [h EXCEPT !.p = _parse_error(@, "Badly formatted urgency value: "
                                       \o value, strict)]
  ELSE [h EXCEPT
          !.p.current_block.urgency = Group(val_match, value, 1),
          !.p.current_block.urgency_comment =
            IF Group(val_match, value, 2) # None
            THEN Group(val_match, value, 2) ELSE @]

\* A pair that matched keyvalue; h.p has the error of a repeated key, if any.
KeyValuePair(h, key, value, strict) ==
  IF h.p.status = "raised" THEN h
  ELSE IF Lower(key) = "urgency"
  THEN UrgencyPair([h EXCEPT !.all_keys = @ \cup {Lower(key)}], value,
                   ReMatch("value_re", value), strict)
  ELSE [h EXCEPT !.all_keys = @ \cup {Lower(key)},
                 !.other_pairs = DictSet(@, key, value)]

\* The stripped pair and its match against keyvalue.
MatchedPair(h, pair, kv_match, strict) ==
  IF ~kv_match.ok
  THEN [h EXCEPT !.p = _parse_error(@, "Invalid key-value pair after ';': "
                                       \o pair, strict)]
  ELSE KeyValuePair(
         IF Lower(Group(kv_match, pair, 1)) \in h.all_keys
         THEN [h EXCEPT !.p = _parse_error(@,
                 "Repeated key-value: " \o Lower(Group(kv_match, pair, 1)),
                 strict)]
         ELSE h,
         Group(kv_match, pair, 1), Group(kv_match, pair, 2), strict)

\* The body of the loop over the pairs for one pair.
HeadingPair(h, rawpair, strict) ==
  MatchedPair(h, Strip(rawpair), ReMatch("keyvalue", Strip(rawpair)), strict)

\* for pair in pairs.split(','), left by the first exception.
RECURSIVE HeadingPairs(_, _, _)
HeadingPairs(h, pairs, strict) ==
  IF pairs = <<>> \/ h.p.status = "raised" THEN h
  ELSE HeadingPairs(HeadingPair(h, Head(pairs), strict), Tail(pairs), strict)

\* The branch of a heading line: top_match is not None and the block limit
\* is not reached.
Heading(p, line, strict) ==
  LET top_match == ReMatch("topline", line)
      opened == [p EXCEPT
                   !.current_block.package = Group(top_match, line, 1),
                   !.current_block._raw_version = Group(top_match, line, 2),
                   !.current_block.distributions =
                     LStrip(Group(top_match, line, 3))]
      h == HeadingPairs([p |-> opened, all_keys |-> {}, other_pairs |-> <<>>],
                        Split(AfterFirst(line, ";"), ","), strict)
  IN IF h.p.status = "raised" THEN h.p
     ELSE [h.p EXCEPT !.current_block.other_pairs = h.other_pairs,
                      !.state = start_of_change_data]

\* Slurp that keeps the line and stays in the heading state.
SlurpNoSwitch(p, line) == AddToLastBlock(p, line)

\* Slurp that does not remember the state it was entered from.
SlurpForgets(p, line) ==
  LET kept == AddToLastBlock(p, line)
  IN IF kept.status = "raised" THEN kept
     ELSE [kept EXCEPT !.state = slurp_to_end]

\* Enter slurp_to_end from a heading state with the line kept as a trailing
\* line of the last block.
Slurp(p, line) ==
  LET kept == AddToLastBlock(p, line)
  IN IF kept.status = "raised" THEN kept
     ELSE [kept EXCEPT !.old_state = p.state, !.state = slurp_to_end]

\* max_blocks is not None and len(self._blocks) >= max_blocks
LimitReachedLate(p, o) ==
  o.max_blocks # <<>> /\ Len(p._blocks) > o.max_blocks[1]

LimitReached(p, o) ==
  o.max_blocks # <<>> /\ Len(p._blocks) >= o.max_blocks[1]

\* HeadingState without the tests state != first_heading.
HeadingStateSlurpsFirst(p, line, o) ==
  LET unexpected ==
        _parse_error(p, "Unexpected line while looking for " \o p.state
                        \o ": " \o line, o.strict)
  IN IF ReMatch("topline", line).ok
     THEN IF LimitReached(p, o)
          THEN [p EXCEPT !.status = "capped"]
          ELSE Heading(p, line, o.strict)
     ELSE IF ReMatch("blankline", line).ok THEN KeepLine(p, line)
     ELSE IF ReMatch("emacs_variables", line).ok
             \/ ReMatch("vim_variables", line).ok
     THEN Slurp(p, line)
     ELSE IF ReMatch("cvs_keyword", line).ok \/ ReMatch("comments", line).ok
             \/ ReMatch("more_comments", line).ok
     THEN KeepLine(p, line)
     ELSE IF OldFormatMatch(line)
     THEN Slurp(p, line)
     ELSE IF unexpected.status = "raised" THEN unexpected
     ELSE KeepLine(unexpected, line)

\* The loop body in first_heading and next_heading_or_eof.
HeadingState(p, line, o) ==
  LET unexpected ==
        _parse_error(p, "Unexpected line while looking for " \o p.state
                        \o ": " \o line, o.strict)
  IN IF ReMatch("topline", line).ok
     THEN IF LimitReached(p, o)
          THEN [p EXCEPT !.status = "capped"]
          ELSE Heading(p, line, o.strict)
     ELSE IF ReMatch("blankline", line).ok THEN KeepLine(p, line)
     ELSE IF (ReMatch("emacs_variables", line).ok
              \/ ReMatch("vim_variables", line).ok)
             /\ p.state # first_heading
     THEN Slurp(p, line)
     ELSE IF ReMatch("cvs_keyword", line).ok \/ ReMatch("comments", line).ok
             \/ ReMatch("more_comments", line).ok
     THEN KeepLine(p, line)
     ELSE IF OldFormatMatch(line) /\ p.state # first_heading
     THEN Slurp(p, line)
     ELSE IF unexpected.status = "raised" THEN unexpected
     ELSE KeepLine(unexpected, line)

\* AppendBlock that leaves the state as it is.
AppendBlockStays(p) ==
  [p EXCEPT !._blocks = Append(@, [p.current_block EXCEPT
                                     !._changes = p.changes]),
            !.changes = <<>>,
            !.current_block = ChangeBlock(NoArgs)]

\* AppendBlock with the block marked as having no trailer.
AppendBlockNoTrailer(p) ==
  [p EXCEPT !._blocks = Append(@, [p.current_block EXCEPT
                                     !._changes = p.changes,
                                     !._no_trailer = TRUE]),
            !.changes = <<>>,
            !.current_block = ChangeBlock(NoArgs),
            !.state = next_heading_or_eof]

\* self._blocks.append(current_block) with the collected changes, and the
\* fresh block and list for the next entry.
AppendBlock(p) ==
  [p EXCEPT !._blocks = Append(@, [p.current_block EXCEPT
                                     !._changes = p.changes]),
            !.changes = <<>>,
            !.current_block = ChangeBlock(NoArgs),
            !.state = next_heading_or_eof]

\* The loop body in start_of_change_data and more_changes_or_trailer.
ChangeState(p, line, o) ==
  LET end_match == ReMatch("endline", line)
      badsep == _parse_error(p, "Badly formatted trailer line: " \o line,
                             o.strict)
      sep == IF Group(end_match, line, 3) # "  "
             THEN [badsep EXCEPT !.current_block._trailer_separator =
                                   Group(end_match, line, 3)]
             ELSE p
      unexpected ==
        _parse_error(p, "Unexpected line while looking for " \o p.state
                        \o ": " \o line, o.strict)
  IN IF ReMatch("change", line).ok
     THEN [p EXCEPT !.changes = Append(@, line),
                    !.state = more_changes_or_trailer]
     ELSE IF end_match.ok
     THEN IF sep.status = "raised" THEN badsep
          ELSE AppendBlock([sep EXCEPT
                 !.current_block.author =
                   Group(end_match, line, 1) \o " <"
                   \o Group(end_match, line, 2) \o ">",
                 !.current_block.date = Group(end_match, line, 4)])
     ELSE IF ReMatch("endline_nodetails", line).ok
     THEN IF ~o.allow_empty_author THEN badsep
          ELSE AppendBlock(p)
     ELSE IF ReMatch("blankline", line).ok
     THEN [p EXCEPT !.changes = Append(@, line)]
     ELSE IF ReMatch("cvs_keyword", line).ok \/ ReMatch("comments", line).ok
             \/ ReMatch("more_comments", line).ok
     THEN [p EXCEPT !.changes = Append(@, line)]
     ELSE IF unexpected.status = "raised" THEN unexpected
     ELSE [unexpected EXCEPT !.changes = Append(@, line)]

\* The loop body in slurp_to_end.
SlurpState(p, line) ==
  IF p.old_state = next_heading_or_eof THEN AddToLastBlock(p, line)
  ELSE [p EXCEPT !.changes = Append(@, line)]

\* ParseLine that opens a new block at a heading line met in a block.
ParseLineOpensBlock(p, line, o) ==
  IF p.state \in {first_heading, next_heading_or_eof}
  THEN HeadingState(p, line, o)
  ELSE IF p.state \in {start_of_change_data, more_changes_or_trailer}
  THEN IF ReMatch("topline", line).ok THEN Heading(p, line, o.strict)
       ELSE ChangeState(p, line, o)
  ELSE SlurpState(p, line)

\* One pass of "for line in file" under the options o.
ParseLine(p, line, o) ==
  IF p.state \in {first_heading, next_heading_or_eof}
  THEN HeadingState(p, line, o)
  ELSE IF p.state \in {start_of_change_data, more_changes_or_trailer}
  THEN ChangeState(p, line, o)
  ELSE SlurpState(p, line)

\* ParseEnd without the mark that the last block has no trailer.
ParseEndKeepsTrailer(p, o) ==
  LET eof == _parse_error(p, "Found eof where expected " \o p.state, o.strict)
  IN IF (p.state # next_heading_or_eof /\ p.state # slurp_to_end)
        \/ (p.state = slurp_to_end /\ p.old_state # next_heading_or_eof)
     THEN IF eof.status = "raised" THEN eof
          ELSE [eof EXCEPT
                  !._blocks = Append(@, [p.current_block EXCEPT
                                           !._changes = p.changes]),
                  !.current_block._changes = p.changes,
                  !.status = "finished"]
     ELSE [p EXCEPT !.status = "finished"]

\* ParseEnd that takes the end of the input after a heading as a document end.
ParseEndAfterHeading(p, o) ==
  LET eof == _parse_error(p, "Found eof where expected " \o p.state, o.strict)
  IN IF p.state \in {first_heading, more_changes_or_trailer}
        \/ (p.state = slurp_to_end /\ p.old_state # next_heading_or_eof)
     THEN IF eof.status = "raised" THEN eof
          ELSE [eof EXCEPT
                  !._blocks = Append(@, [p.current_block EXCEPT
                                           !._changes = p.changes,
                                           !._no_trailer = TRUE]),
                  !.current_block._changes = p.changes,
                  !.current_block._no_trailer = TRUE,
                  !.status = "finished"]
     ELSE [p EXCEPT !.status = "finished"]

\* The end of parse_changelog, after the loop.
ParseEnd(p, o) ==
  LET eof == _parse_error(p, "Found eof where expected " \o p.state, o.strict)
  IN IF (p.state # next_heading_or_eof /\ p.state # slurp_to_end)
        \/ (p.state = slurp_to_end /\ p.old_state # next_heading_or_eof)
     THEN IF eof.status = "raised" THEN eof
          ELSE [eof EXCEPT
                  !._blocks = Append(@, [p.current_block EXCEPT
                                           !._changes = p.changes,
                                           !._no_trailer = TRUE]),
                  !.current_block._changes = p.changes,
                  !.current_block._no_trailer = TRUE,
                  !.status = "finished"]
     ELSE [p EXCEPT !.status = "finished"]

\* The text whose lines are ls, each line ended by a newline.
FileText(ls) == LinesText(ls)

\* Lines 301 to 303: the lines of the text.
FileLines(text) ==
  LET whole == IF text # "" /\ Char(text, Len(text)) # "\n"
               THEN text \o "\n" ELSE text
      parts == Split(whole, "\n")
  IN SubSeq(parts, 1, Len(parts) - 1)

\* Lines 297 to 299: the text is empty or all whitespace.
EmptyFile(p, o) ==
  LET empty == _parse_error(p, "Empty changelog file.", o.strict)
  IN IF empty.status = "raised" THEN empty
     ELSE [empty EXCEPT !.status = "empty"]

\* The loop over the lines ls, left at the first return or exception.
RECURSIVE ParseLines(_, _, _)
ParseLines(p, ls, o) ==
  IF ls = <<>> \/ p.status # "running" THEN p
  ELSE ParseLines(ParseLine(p, Head(ls), o), Tail(ls), o)

\* The function body applied to the lines of the text, from the check for
\* an empty text to the code after the loop.
ParseAfterLoop(p, o) == IF p.status = "running" THEN ParseEnd(p, o) ELSE p

ParseText(ls, o) ==
  IF o.basestring /\ Strip(FileText(ls)) = "" THEN EmptyFile(StartParse, o)
  ELSE ParseAfterLoop(ParseLines(StartParse, ls, o), o)

\* parse_changelog(file) for a sequence of lines, and for a string: the
\* check for the empty text, the newline added to a text that does not end
\* in one, and the split at the newlines.
ParseList(ls, o) == ParseAfterLoop(ParseLines(StartParse, ls, o), o)

ParseString(text, o) ==
  IF Strip(text) = "" THEN EmptyFile(StartParse, o)
  ELSE ParseList(FileLines(text), o)

\* Longest input, in lines.
MaxLines == 4

\* The block limits parse_changelog is called with: <<>> for None, <<k>>
\* for the number k.
BlockLimits == {<<>>, <<1>>}

\* The callers' options: the entry point (the constructor or
\* parse_changelog on a new Changelog), the form of the input (a string, for
\* which isinstance(file, basestring) holds, or the sequence of its lines)
\* and the three keyword arguments.
OptionSets ==
  [entry : {"Changelog", "parse_changelog"},
   basestring : BOOLEAN,
   max_blocks : BlockLimits,
   allow_empty_author : BOOLEAN,
   strict : BOOLEAN]

\* What the caller of the entry point has got from the parse q: the
\* constructor passes over a ChangelogParseError.
Reaches(o, q) ==
  IF q.status = "running" THEN "pending"
  ELSE IF q.status # "raised" THEN "returned"
  ELSE IF o.entry = "Changelog" /\ q.exc = "ChangelogParseError"
  THEN "returned"
  ELSE q.exc

\* ver: a Version object; call: the last operation on it and its outcome.
\* opts: the options of the running parse; file: the lines of the input
\* known so far; parse: the Changelog object and the locals of
\* parse_changelog; outcome: what the caller has got.
VARIABLES ver, call, opts, file, parse, outcome

vvars == <<ver, call>>
pvars == <<opts, file, parse, outcome>>
vars == <<ver, call, opts, file, parse, outcome>>

VInit ==
  /\ ver = NoVersion
  /\ call = [op |-> "none", exc |-> "none"]

PInit ==
  /\ opts \in OptionSets
  /\ file = <<>>
  /\ parse = StartParse
  /\ outcome = "pending"

\* v = Version(s).  The superclass constructor, which is not part of the
\* source at hand, is handed s first and is not modelled; s is not empty.
Construct ==
  /\ ver = NoVersion
  /\ \E s \in VersionTexts \ {""} :
       LET r == NewVersion(s)
       IN /\ ver' = r.v
          /\ call' = [op |-> "Version", exc |-> r.exc]
  /\ UNCHANGED pvars

\* v.full_version = s
AssignFullVersion ==
  /\ ver # NoVersion
  /\ \E s \in VersionTexts :
       LET r == SetAttr(ver, "full_version", s)
       IN /\ ver' = r.v
          /\ call' = [op |-> "full_version", exc |-> r.exc]
  /\ UNCHANGED pvars

\* v.epoch = x, v.upstream_version = x or v.debian_version = x
AssignComponent ==
  /\ ver # NoVersion
  /\ \E attr \in ComponentAttrs :
       \E x \in ComponentValues :
         /\ WithinMaxFull(ver, attr, x)
         /\ LET r == SetAttr(ver, attr, x)
            IN /\ ver' = r.v
               /\ call' = [op |-> attr, exc |-> r.exc]
  /\ UNCHANGED pvars

\* v.<any other name> = x
AssignOther ==
  /\ ver # NoVersion
  /\ LET r == SetAttr(ver, "revision", "1")
     IN /\ ver' = r.v
        /\ call' = [op |-> "other", exc |-> r.exc]
  /\ UNCHANGED pvars

VNext == Construct \/ AssignFullVersion \/ AssignComponent \/ AssignOther

\* No parse is under way.
VersionInit ==
  /\ VInit
  /\ opts = CHOOSE o \in OptionSets : TRUE
  /\ file = <<>>
  /\ parse = StartParse
  /\ outcome = "pending"

\* The operations on one Version object.
SpecVersion == VersionInit /\ [][VNext]_vars

\* One pass of the loop over the lines of the input: the next line of the
\* input is any of Lines.
ReadLine ==
  /\ parse.status = "running"
  /\ Len(file) < MaxLines
  /\ \E line \in Lines :
       /\ file' = Append(file, line)
       /\ parse' = ParseLine(parse, line, opts)
  /\ outcome' = Reaches(opts, parse')
  /\ UNCHANGED <<opts, ver, call>>

\* The input ends here: a string that is empty or all whitespace never
\* enters the loop, any other input runs into the code after the loop.
EndOfFile ==
  /\ parse.status = "running"
  /\ parse' = [(IF opts.basestring /\ Strip(FileText(file)) = ""
                THEN EmptyFile(StartParse, opts)
                ELSE ParseEnd(parse, opts)) EXCEPT !.exhausted = TRUE]
  /\ outcome' = Reaches(opts, parse')
  /\ UNCHANGED <<opts, file, ver, call>>

\* The input goes on after the line at which parse_changelog returned or
\* raised: the rest is never read.
Unread ==
  /\ parse.status \in {"capped", "raised"}
  /\ ~parse.exhausted
  /\ Len(file) < MaxLines
  /\ \E line \in Lines : file' = Append(file, line)
  /\ UNCHANGED <<opts, parse, outcome, ver, call>>

Next == ReadLine \/ EndOfFile \/ Unread

Init == VInit /\ PInit

\* Changelog(text, ...) and Changelog().parse_changelog(text, ...).
Spec == Init /\ [][Next]_vars


(***************************************************************************)
(* Editing a Changelog                                                     *)
(***************************************************************************)

\* Most blocks of an edited Changelog, and most notes of its newest block.
MaxBlocks == 1
MaxChanges == 3

\* The texts the edited Changelog is parsed from: none, a complete entry
\* whose notes end in a blank line, and an entry without trailer.
EditFiles ==
  {<<>>,
   <<"p (1) d; urgency=low", "  * c", "",
     " -- A <e>  1 J 2000 1:00:00 +0000">>,
   <<"p (1) d; urgency=low", "  * c">>}

\* The keyword arguments new_block is called with: each given or left out.
BlockArgs ==
  [package : {None, "p"}, version : {None, "1"}, distributions : {None, "d"},
   urgency : {None, "low"}, urgency_comment : {None},
   changes : {NoList, <<"  * c">>}, author : {None, "A <e>"},
   date : {None, "1 J 2000 1:00:00 +0000"}, other_pairs : {<<>>}]

\* The attributes the document-level setters assign and the values assigned.
SetterAttrs == {"package", "distributions", "urgency", "author", "date"}
SetterValues ==
  [package |-> {"p"}, distributions |-> {"d"}, urgency |-> {None, "low"},
   author |-> {"A <e>"}, date |-> {"1 J 2000 1:00:00 +0000"}]

\* The position in _blocks of the block that was appended or inserted as the
\* k-th, and the other way round: new_block inserts at the front, so that a
\* block keeps its number from the end.
FromEnd(cl, k) == Len(cl._blocks) + 1 - k

\* The list object L as it is now: cl.held are the blocks, numbered from the
\* end, whose _changes is L.
CallerList(cl, fresh) ==
  IF cl.held = {} THEN fresh
  ELSE cl._blocks[FromEnd(cl, CHOOSE k \in cl.held : TRUE)]._changes

\* Changelog.add_change(note): the list of the newest block is changed in
\* place, and with it the notes of every block that holds the same list
\* object; a block without list gets a new one.
Changelog_add_change(cl, note) ==
  LET newest == add_change(cl._blocks[1], note)
      shared == IF cl._blocks[1]._changes # NoList
                   /\ FromEnd(cl, 1) \in cl.held
                THEN {FromEnd(cl, k) : k \in cl.held} ELSE {1}
  IN [cl EXCEPT !._blocks =
        [i \in 1..Len(cl._blocks) |->
           IF i = 1 THEN newest
           ELSE IF i \in shared
           THEN [cl._blocks[i] EXCEPT !._changes = newest._changes]
           ELSE cl._blocks[i]]]

\* Changelog.new_block that puts the block after the others.
new_block_last(cl, kw) ==
  [cl EXCEPT !._blocks = Append(@, add_trailing_line(ChangeBlock(kw), ""))]

\* Changelog.new_block that keeps the new block only.
new_block_alone(cl, kw) ==
  [cl EXCEPT !._blocks = <<add_trailing_line(ChangeBlock(kw), "")>>]

\* Changelog.new_block(**kw)
new_block(cl, kw) ==
  [cl EXCEPT !._blocks = <<add_trailing_line(ChangeBlock(kw), "")>> \o @]

\* The operation has run on the Changelog cl without exception.
Done(op, kw) == [op |-> op, exc |-> "none", kw |-> kw]
\* self._blocks[0] of a Changelog without blocks.
NoBlock(op) == [op |-> op, exc |-> "IndexError", kw |-> NoArgs]

\* Changelog(text, strict=...): in this specification parse is the
\* Changelog object and call the last operation on it, with its exception
\* and, for new_block, its keyword arguments.
EditInit ==
  /\ VInit
  /\ opts \in {o \in OptionSets : /\ o.entry = "Changelog"
                                  /\ o.basestring
                                  /\ o.max_blocks = <<>>
                                  /\ ~o.allow_empty_author}
  /\ file \in EditFiles
  /\ parse = [ParseText(file, opts) EXCEPT !.exhausted = TRUE]
  /\ outcome = Reaches(opts, parse)

\* new_block(**kw)
NewBlock ==
  /\ Len(parse._blocks) < MaxBlocks
  /\ \E kw \in BlockArgs :
       /\ parse' = new_block(parse, kw)
       /\ call' = Done("new_block", kw)
  /\ UNCHANGED <<ver, opts, file, outcome>>

\* set_package, set_distributions, set_urgency, set_author, set_date
SetAttribute ==
  /\ \E attr \in SetterAttrs : \E x \in SetterValues[attr] :
       IF parse._blocks = <<>>
       THEN parse' = parse /\ call' = NoBlock("set")
       ELSE /\ parse' = [parse EXCEPT !._blocks[1][attr] = x]
            /\ call' = Done("set", NoArgs)
  /\ UNCHANGED <<ver, opts, file, outcome>>

\* The texts set_version is called with, as a string or as the Version
\* object made from it.
SetVersions == {"1:1-1", "1 "}

\* str(x) for a string or None.
PyStr(x) == IF x = None THEN "None" ELSE x

\* str(v) of a Version: the text kept in __asString.
VersionStr(v) == v.full_version

\* VersionOf that makes the Version of the upstream version of a Version.
VersionOfUpstream(x) ==
  NewVersion(IF x.type = "Version" THEN x.value.upstream_version
             ELSE PyStr(x.value))

\* Version(x) for the argument x of set_version, a string
\* [type |-> "str", value |-> s] or a Version [type |-> "Version",
\* value |-> v]: version = str(x), then the assignment of full_version.
VersionOf(x) ==
  NewVersion(IF x.type = "Version" THEN VersionStr(x.value)
             ELSE PyStr(x.value))

\* ChangeBlock._set_version with a Version.
_set_version(b, v) == [b EXCEPT !._raw_version = VersionStr(v)]

\* ChangeBlock._get_version
_get_version(b) == NewVersion(PyStr(b._raw_version))

\* Changelog.set_version(x): the Changelog afterwards and the exception.
set_version(cl, x) ==
  IF VersionOf(x).exc # "none" THEN [cl |-> cl, exc |-> VersionOf(x).exc]
  ELSE IF cl._blocks = <<>> THEN [cl |-> cl, exc |-> "IndexError"]
  ELSE [cl |-> [cl EXCEPT !._blocks[1] = _set_version(@, VersionOf(x).v)],
        exc |-> "none"]

\* set_version(x) as the operation op, x a string or a Version of the text s.
SetsVersion(op, s, x) ==
  /\ parse' = set_version(parse, x).cl
  /\ call' = [op |-> op, exc |-> set_version(parse, x).exc,
              kw |-> [NoArgs EXCEPT !.version = s]]

\* cl.version = s and cl.version = Version(s); ver is the Version object
\* made last.
SetVersion ==
  /\ \E s \in SetVersions :
       \/ /\ ver' = ver
          /\ SetsVersion("set_version", s, [type |-> "str", value |-> s])
       \/ /\ NewVersion(s).exc = "none"
          /\ ver' = NewVersion(s).v
          /\ SetsVersion("set_version Version", s,
                         [type |-> "Version", value |-> ver'])
  /\ UNCHANGED <<opts, file, outcome>>

\* The notes add_change is called with: a blank one and one that is not.
NewNotes == {"", "  * d"}

\* Changelog.add_change(note); call.kw.changes holds the argument.
AddChange ==
  /\ \E note \in NewNotes :
       IF parse._blocks = <<>>
       THEN parse' = parse /\ call' = NoBlock("add_change")
       ELSE /\ \/ parse._blocks[1]._changes = NoList
               \/ Len(parse._blocks[1]._changes) < MaxChanges
            /\ parse' = Changelog_add_change(parse, note)
            /\ call' = Done("add_change",
                            [NoArgs EXCEPT !.changes = <<note>>])
  /\ UNCHANGED <<ver, opts, file, outcome>>

\* str(cl)
Render ==
  /\ call' = [op |-> "str", exc |-> ChangelogStr(parse).exc, kw |-> NoArgs]
  /\ UNCHANGED <<ver, opts, file, parse, outcome>>

EditNext == NewBlock \/ SetAttribute \/ SetVersion \/ AddChange \/ Render

\* A Changelog parsed from a text and then edited.
SpecEdit == EditInit /\ [][EditNext]_vars

(***************************************************************************)
(* A Changelog of several blocks                                           *)
(***************************************************************************)

\* Most operations on the Changelog after its construction.
MaxOps == 4

\* The texts the Changelog is parsed from: one entry, and two entries.
DocFiles ==
  {<<"p (1) d; urgency=low", "  * c", " -- A <e>  1 J 2000 1:00:00 +0000">>,
   <<"p (1) d; urgency=low", "  * c", " -- A <e>  1 J 2000 1:00:00 +0000">>
   \o OlderEntry}

\* The keyword arguments of new_block: a whole entry, or none.  The list
\* given as changes is either a new list or the one list object L that the
\* caller keeps and passes again.
DocArgs ==
  {[package |-> "q", version |-> "10", distributions |-> "e",
    urgency |-> "high", urgency_comment |-> None, changes |-> <<"  * n">>,
    author |-> "B <f>", date |-> "2 J 2000 1:00:00 +0000",
    other_pairs |-> <<>>],
   NoArgs}

\* The values the setters are called with.
DocValues ==
  [package |-> "r", distributions |-> "s", urgency |-> "medium",
   author |-> "C <g>", date |-> "3 J 2000 1:00:00 +0000"]

\* The accessors of the Changelog: the value read, or the exception.
GetOfBlock(cl, i, name) ==
  IF cl._blocks = <<>> THEN [value |-> None, exc |-> "IndexError"]
  ELSE IF name = "version"
  THEN [value |-> _get_version(cl._blocks[i]).v,
        exc |-> _get_version(cl._blocks[i]).exc]
  ELSE IF name \in ComponentAttrs \cup {"full_version"}
  THEN [value |-> IF _get_version(cl._blocks[i]).exc = "none"
                  THEN _get_version(cl._blocks[i]).v[name] ELSE None,
        exc |-> _get_version(cl._blocks[i]).exc]
  ELSE [value |-> cl._blocks[i][name], exc |-> "none"]

\* The accessors reading the oldest block.
GetOldest(cl, name) == GetOfBlock(cl, Len(cl._blocks), name)

Get(cl, name) == GetOfBlock(cl, 1, name)

\* The record of the operation op, its exception and its argument, as the
\* n-th operation.
Op(op, exc, kw) == [op |-> op, exc |-> exc, kw |-> kw, n |-> call.n + 1]

\* The options the texts are parsed with: the defaults.
DocOptions ==
  [entry |-> "Changelog", basestring |-> TRUE, max_blocks |-> <<>>,
   allow_empty_author |-> FALSE, strict |-> TRUE]

\* parse_changelog(text) for the texts of DocFiles.
DocParsed ==
  [text \in DocFiles |->
     [ParseText(text, DocOptions) EXCEPT !.exhausted = TRUE]]

\* Changelog(text)
DocInit ==
  /\ ver = NoVersion
  /\ call = [op |-> "Changelog", exc |-> "none", kw |-> NoArgs, n |-> 0]
  /\ opts = DocOptions
  /\ file \in DocFiles
  /\ parse = DocParsed[file]
  /\ outcome = Reaches(opts, parse)

\* cl.parse_changelog(text) on the Changelog that exists
DocParse ==
  /\ call.n < MaxOps
  /\ file' \in DocFiles
  /\ parse' = DocParsed[file']
  /\ outcome' = Reaches(opts, parse')
  /\ call' = Op("parse_changelog", parse'.exc, NoArgs)
  /\ UNCHANGED <<ver, opts>>

\* cl.new_block(**kw), the changes a new list or the list L
DocNewBlock ==
  /\ call.n < MaxOps
  /\ \E args \in DocArgs : \E byref \in BOOLEAN :
       /\ byref => args.changes # NoList
       /\ LET kw == IF byref
                    THEN [args EXCEPT !.changes = CallerList(parse, @)]
                    ELSE args
          IN /\ parse' = [new_block(parse, kw) EXCEPT
                            !.held = IF byref
                                     THEN @ \cup {Len(parse._blocks) + 1}
                                     ELSE @]
             /\ call' = Op("new_block", "none", kw)
  /\ UNCHANGED <<ver, opts, file, outcome>>

\* set_package, set_distributions, set_urgency, set_author, set_date
DocSet ==
  /\ call.n < MaxOps
  /\ \E attr \in DOMAIN DocValues :
       /\ parse' = [parse EXCEPT !._blocks[1][attr] = DocValues[attr]]
       /\ call' = Op("set", "none", [NoArgs EXCEPT ![attr] = DocValues[attr]])
  /\ UNCHANGED <<ver, opts, file, outcome>>

\* cl.add_change(note)
DocAddChange ==
  /\ call.n < MaxOps
  /\ \E note \in NewNotes :
       /\ parse' = Changelog_add_change(parse, note)
       /\ call' = Op("add_change", "none",
                     [NoArgs EXCEPT !.changes = <<note>>])
  /\ UNCHANGED <<ver, opts, file, outcome>>

\* str(cl)
DocStr ==
  /\ call.n < MaxOps
  /\ call' = Op("str", ChangelogStr(parse).exc, NoArgs)
  /\ UNCHANGED <<ver, opts, file, parse, outcome>>

DocNext ==
  DocParse \/ DocNewBlock \/ DocSet \/ DocAddChange \/ DocStr

\* A Changelog parsed from a text of one or two entries, and the operations
\* on it.
SpecDoc == DocInit /\ [][DocNext]_vars

(***************************************************************************)
(* The versions and the headings of a parsed Changelog                     *)
(***************************************************************************)

\* The texts parsed: one entry or two, the headings from HeadingLines.
HeadEntry(h) == <<h, "  * c", " -- A <e>  1 J 2000 1:00:00 +0000">>
HeadFiles ==
  {HeadEntry(h) : h \in HeadingLines}
  \cup {HeadEntry(h) \o HeadEntry(g) : h \in HeadingLines, g \in HeadingLines}

\* Changelog.get_versions: the list of the Version objects, or the exception
\* of the first block whose version text is no version.
get_versions(cl) ==
  LET bad == {k \in 1..Len(cl._blocks) :
                _get_version(cl._blocks[k]).exc # "none"}
  IN IF bad # {}
     THEN [value |-> <<>>,
           exc |-> _get_version(
                     cl._blocks[CHOOSE k \in bad : \A j \in bad : k <= j]).exc]
     ELSE [value |-> [k \in 1..Len(cl._blocks) |->
                        _get_version(cl._blocks[k]).v],
           exc |-> "none"]

\* ^X[BCS]+-  compiled with re.IGNORECASE
xbcs_re ==
  Cat(<<Bol, LitI("X"), Plus(InSet({"B", "C", "S", "b", "c", "s"})),
        Lit("-")>>)

\* The body of the loop of other_keys_normalised for one key: the key that
\* goes into norm_dict, or IndexError for key[0] of an empty key.
NormKey(key, pattern) ==
  LET cased == UpperChar(Head(key)) \o Lower(Tail(key))
  IN IF key = "" THEN [key |-> key, exc |-> "IndexError"]
     ELSE [key |-> IF ~Match(pattern, cased).ok THEN "XS-" \o cased
                   ELSE cased,
           exc |-> "none"]

\* The loop over the items of the dictionary d, norm_dict being norm so far.
RECURSIVE NormItems(_, _, _)
NormItems(d, norm, pattern) ==
  IF d = <<>> THEN [value |-> norm, exc |-> "none"]
  ELSE IF NormKey(Head(d)[1], pattern).exc # "none"
  THEN [value |-> norm, exc |-> NormKey(Head(d)[1], pattern).exc]
  ELSE NormItems(Tail(d),
                 DictSet(norm, NormKey(Head(d)[1], pattern).key, Head(d)[2]),
                 pattern)

\* The names of the module scope that the body of other_keys_normalised
\* uses, with their values: the module binds xbcs_re, and it binds no
\* other_pairs.
ModuleGlobals == [xbcs_re |-> xbcs_re]

\* ChangeBlock.other_keys_normalised on the block b, the names of the module
\* scope being globals.  The body reads other_pairs and xbcs_re, which are
\* no locals and no attributes of self: they are looked up in the module
\* scope, and a name that is not bound there raises NameError.  The block is
\* not assigned to.
other_keys_normalised(b, globals) ==
  IF "other_pairs" \notin DOMAIN globals
  THEN [value |-> <<>>, exc |-> "NameError"]
  ELSE IF "xbcs_re" \notin DOMAIN globals /\ globals.other_pairs # <<>>
  THEN [value |-> <<>>, exc |-> "NameError"]
  ELSE NormItems(globals.other_pairs, <<>>, globals.xbcs_re)

\* The record of an operation on the block k (0 for the Changelog) with
\* its exception and what it returned.
Got(op, k, exc, value) ==
  [op |-> op, block |-> k, exc |-> exc, value |-> value]

\* Changelog(text), strict
HeadInit ==
  /\ ver = NoVersion
  /\ call = Got("Changelog", 0, "none", None)
  /\ opts = DocOptions
  /\ file \in HeadFiles
  /\ parse = [ParseText(file, opts) EXCEPT !.exhausted = TRUE]
  /\ outcome = Reaches(opts, parse)

\* cl.get_versions()
GetVersions ==
  /\ call' = Got("get_versions", 0, get_versions(parse).exc,
                 get_versions(parse).value)
  /\ UNCHANGED <<ver, opts, file, parse, outcome>>

\* cl._blocks[k].version
GetBlockVersion ==
  /\ \E k \in 1..Len(parse._blocks) :
       call' = Got("version", k, _get_version(parse._blocks[k]).exc,
                   _get_version(parse._blocks[k]).v)
  /\ UNCHANGED <<ver, opts, file, parse, outcome>>

\* str(cl._blocks[k]): one of the texts the order of the items allows
StrBlock ==
  /\ \E k \in 1..Len(parse._blocks) :
       \E r \in BlockStrs(parse._blocks[k]) :
         call' = Got("str", k, r.exc, r.text)
  /\ UNCHANGED <<ver, opts, file, parse, outcome>>

\* cl._blocks[k].other_keys_normalised()
NormaliseKeys ==
  /\ \E k \in 1..Len(parse._blocks) :
       LET r == other_keys_normalised(parse._blocks[k], ModuleGlobals)
       IN call' = Got("other_keys_normalised", k, r.exc, r.value)
  /\ UNCHANGED <<ver, opts, file, parse, outcome>>

HeadNext == GetVersions \/ GetBlockVersion \/ StrBlock \/ NormaliseKeys

\* A Changelog parsed in strict mode, and what is read from its blocks.
SpecHeadings == HeadInit /\ [][HeadNext]_vars

(***************************************************************************)
(* Statements about Version                                                *)
(***************************************************************************)

AllIn(s, cs) == \A i \in 1..Len(s) : Char(s, i) \in cs

\* The version grammar: the whole of s is [epoch:]upstream[-revision], the
\* epoch one or more digits, the upstream part one or more characters of
\* [A-Za-z0-9.+:~-], the revision one or more characters of [A-Za-z0-9.~+].
\* Position i is the colon after the epoch (0: no epoch), position j the
\* hyphen before the revision (Len(s) + 1: no revision).
InGrammar(s) ==
  \E i \in 0..Len(s) : \E j \in (i + 2)..(Len(s) + 1) :
    /\ \/ i = 0
       \/ /\ i >= 2
          /\ Char(s, i) = ":"
          /\ AllIn(SubSeq(s, 1, i - 1), Digits)
    /\ \/ j = Len(s) + 1
       \/ /\ j < Len(s)
          /\ Char(s, j) = "-"
          /\ AllIn(SubSeq(s, j + 1, Len(s)), DebianChars)
    /\ AllIn(SubSeq(s, i + 1, j - 1), UpstreamChars)

\* [epoch:]upstream_version[-debian_version] after v.attr = x: x for attr and
\* the other two components as v has them, the epoch left out when it is
\* None, empty or "0", the revision when it is None or empty.
Recomposed(v, attr, x) ==
  LET e == IF attr = "epoch" THEN x ELSE v.epoch
      u == IF attr = "upstream_version" THEN x ELSE v.upstream_version
      d == IF attr = "debian_version" THEN x ELSE v.debian_version
  IN (IF e \in {None, "", "0"} THEN "" ELSE e \o ":")
     \o u
     \o (IF d \in {None, ""} THEN "" ELSE "-" \o d)

\* C7: every text that does not match the version grammar is rejected with
\* VersionError by Version(...) and by the assignment of full_version, so a
\* construction or assignment that returned was given a text of the grammar;
\* and an assignment that raised left full_version and the three components
\* as they were.
C7_InvalidTextRaises ==
  /\ [](call.op \in {"Version", "full_version"} /\ call.exc = "none"
          => InGrammar(ver.full_version))
  /\ [][call'.exc # "none" => ver' = ver]_vvars

\* C8 as stated: after a successful assignment of x to a component the
\* component reads back x and full_version is the recomposition of x with
\* the other two components' prior values; an assignment of full_version
\* leaves the components of a fresh Version of that text.
C8_AssignedReadsBack ==
  ver # NoVersion =>
    /\ \A attr \in ComponentAttrs : \A x \in ComponentValues :
         LET r == SetAttr(ver, attr, x)
         IN (WithinMaxFull(ver, attr, x) /\ r.exc = "none") =>
              /\ r.v[attr] = x
              /\ r.v.full_version = Recomposed(ver, attr, x)
    /\ \A s \in VersionTexts :
         LET r == SetAttr(ver, "full_version", s)
         IN r.exc = "none" => r.v = NewVersion(s).v

\* C8 as amended: after a successful assignment of x to a component,
\* full_version is the recomposition of x with the other two components'
\* prior values, and the three components are the ones a fresh Version of
\* that full_version has (the assigned one need not read back x); an
\* assignment of full_version keeps the text and leaves the components of a
\* fresh Version of it.
C8_Recomposition ==
  ver # NoVersion =>
    /\ \A attr \in ComponentAttrs : \A x \in ComponentValues :
         LET r == SetAttr(ver, attr, x)
         IN (WithinMaxFull(ver, attr, x) /\ r.exc = "none") =>
              /\ r.v.full_version = Recomposed(ver, attr, x)
              /\ r.v = NewVersion(r.v.full_version).v
    /\ \A s \in VersionTexts :
         LET r == SetAttr(ver, "full_version", s)
         IN r.exc = "none" => r.v.full_version = s /\ r.v = NewVersion(s).v

\* A component assignment has succeeded and left a Version with an epoch, an
\* upstream version and a revision.
C8_Witness ==
  /\ call.op \in ComponentAttrs
  /\ call.exc = "none"
  /\ ver.epoch # None
  /\ ver.debian_version # None

\* C9: for every Version whose full_version S matches the grammar,
\* re-assigning any component the value it has succeeds and gives full
\* version S again, or S without its leading "0:" when the epoch is "0".
C9_RoundTrip ==
  (ver # NoVersion /\ InGrammar(ver.full_version)) =>
    \A attr \in ComponentAttrs :
      LET r == SetAttr(ver, attr, ver[attr])
      IN /\ r.exc = "none"
         /\ r.v.full_version =
              IF ver.epoch = "0"
              THEN SubSeq(ver.full_version, 3, Len(ver.full_version))
              ELSE ver.full_version

\* A Version parsed from a text with an explicit zero epoch.
C9_Witness ==
  /\ call.op = "Version"
  /\ call.exc = "none"
  /\ ver.epoch = "0"
  /\ InGrammar(ver.full_version)

\* C10: in every state of a Version, full_version matches the grammar and is
\* [epoch:]upstream_version[-debian_version] built from the components as
\* they read back, without the epoch when it is absent or zero.
C10_FullIsComposition ==
  ver # NoVersion =>
    /\ InGrammar(ver.full_version)
    /\ ver.full_version =
         (IF ver.epoch \in {None, "0"} THEN "" ELSE ver.epoch \o ":")
         \o ver.upstream_version
         \o (IF ver.debian_version = None THEN ""
             ELSE "-" \o ver.debian_version)

\* The first position of the character c in s, 0 when there is none, and the
\* last one.
FirstAt(s, c) ==
  IF \E i \in 1..Len(s) : Char(s, i) = c
  THEN CHOOSE i \in 1..Len(s) :
         Char(s, i) = c /\ \A k \in 1..(i - 1) : Char(s, k) # c
  ELSE 0
LastAt(s, c) ==
  IF \E i \in 1..Len(s) : Char(s, i) = c
  THEN CHOOSE i \in 1..Len(s) :
         Char(s, i) = c /\ \A k \in (i + 1)..Len(s) : Char(s, k) # c
  ELSE 0

\* The Version of the text s with the epoch ending before position i (0: no
\* epoch) and the revision starting after position j (0: no revision).
SplitAt(s, i, j) ==
  [full_version |-> s,
   epoch |-> IF i = 0 THEN None ELSE SubSeq(s, 1, i - 1),
   upstream_version |-> SubSeq(s, i + 1, IF j = 0 THEN Len(s) ELSE j - 1),
   debian_version |-> IF j = 0 THEN None ELSE SubSeq(s, j + 1, Len(s))]

\* The first colon of s, when digits and nothing else stand before it.
EpochColon(s) ==
  IF FirstAt(s, ":") >= 2 /\ AllIn(SubSeq(s, 1, FirstAt(s, ":") - 1), Digits)
  THEN FirstAt(s, ":") ELSE 0

\* The split the claim words: the epoch is the run of digits before the
\* first colon, the revision the text after the last hyphen.
StatedSplit(s) == SplitAt(s, EpochColon(s), LastAt(s, "-"))

\* The colon of the epoch when a character follows it, and the last hyphen
\* when a character of the upstream part stands before it and one or more
\* characters of [A-Za-z0-9.~+], and nothing else, stand after it.
MatchedColon(s) == IF EpochColon(s) < Len(s) THEN EpochColon(s) ELSE 0
MatchedHyphen(s) ==
  IF /\ LastAt(s, "-") > MatchedColon(s) + 1
     /\ LastAt(s, "-") < Len(s)
     /\ AllIn(SubSeq(s, LastAt(s, "-") + 1, Len(s)), DebianChars)
  THEN LastAt(s, "-") ELSE 0

\* Every text of the grammar makes a Version that keeps it.
KeepsText ==
  \A s \in VersionTexts :
    InGrammar(s) => NewVersion(s).exc = "none" /\ NewVersion(s).v.full_version = s

\* C11 as stated: Version(S) of a text S of the grammar keeps S as
\* full_version, has for epoch the digits before the first colon (None
\* without them), for debian_version the text after the last hyphen (None
\* without hyphen) and for upstream_version what lies between.
C11_SplitAsWorded ==
  /\ KeepsText
  /\ (ver # NoVersion /\ InGrammar(ver.full_version))
       => ver = StatedSplit(ver.full_version)

\* C11 as amended: Version(S) of a text S of the grammar keeps S as
\* full_version; the epoch is the run of digits before the first colon when
\* a character follows that colon, and None otherwise; debian_version is the
\* text after the last hyphen when that text is not empty, has only
\* characters of [A-Za-z0-9.~+] and the hyphen is not the first character
\* after the epoch, and None otherwise; upstream_version is the rest.
C11_SplitAsMatched ==
  /\ KeepsText
  /\ (ver # NoVersion /\ InGrammar(ver.full_version))
       => ver = SplitAt(ver.full_version, MatchedColon(ver.full_version),
                        MatchedHyphen(ver.full_version))

\* Version(S) has returned a Version with a revision.
C11_Witness ==
  /\ call.op = "Version"
  /\ call.exc = "none"
  /\ InGrammar(ver.full_version)
  /\ ver.debian_version # None

(***************************************************************************)
(* Statements about parse_changelog and rendering                          *)
(***************************************************************************)

HeadingStates == {first_heading, next_heading_or_eof}
ChangeBodyStates == {start_of_change_data, more_changes_or_trailer}

\* The step reads a line: the loop runs its body on LastLine'.
ReadsLine == parse.status = "running" /\ Len(file') = Len(file) + 1
LastLine == file[Len(file)]
LastBlock == parse._blocks[Len(parse._blocks)]

\* A trailer without author and date: " --" and nothing but whitespace.
IsEmptyTrailer(line) ==
  Len(line) >= 3 /\ SubSeq(line, 1, 3) = " --"
  /\ Strip(SubSeq(line, 4, Len(line))) = ""

\* A heading line: name (version) distributions; ...
IsHeading(line) == Match(topline, line).ok

\* C1: every text that a strict parse without block limit and without
\* empty-author mode accepts without error is reproduced byte for byte by
\* rendering the resulting Changelog.
C1_RoundTrip ==
  (/\ opts.strict
   /\ opts.max_blocks = <<>>
   /\ ~opts.allow_empty_author
   /\ parse.status = "finished")
  => /\ ChangelogStr(parse).exc = "none"
     /\ ChangelogStr(parse).text = FileText(file)

\* C2: in strict mode nothing is reported as a warning, a grammar violation
\* raises ChangelogParseError, the exception reaches the caller of the
\* constructor and of parse_changelog alike, the step that raises appends no
\* block, and nothing is processed after it.
C2_StrictAbort ==
  /\ [](opts.strict => parse.warnings = <<>>)
  /\ []((opts.strict /\ parse.status = "raised"
         /\ parse.message # "Empty changelog file.")
        => /\ parse.exc = "ChangelogParseError"
           /\ outcome = "ChangelogParseError")
  /\ [][(parse.status = "running" /\ parse'.status = "raised")
        => parse'._blocks = parse._blocks]_vars
  /\ [][parse.status = "raised" => parse' = parse]_vars

\* C3: when the input ends in a change-body state, a lenient parse appends
\* the block in progress as the last block, marked as having no trailer and
\* holding the pending notes in order, and the rendering of that block is its
\* heading line followed by the notes and nothing else; a strict parse raises
\* ChangelogParseError and appends nothing, and so does the strict parse of
\* the input a lenient parse has read.
C3_EndInBlock ==
  [][(/\ parse.status = "running"
      /\ parse.state \in ChangeBodyStates
      /\ parse'.exhausted)
     => /\ opts.strict =>
             /\ parse'.status = "raised"
             /\ parse'.exc = "ChangelogParseError"
             /\ parse'._blocks = parse._blocks
        /\ ~opts.strict =>
             /\ parse'.status = "finished"
             /\ parse'._blocks =
                  Append(parse._blocks,
                         [parse.current_block EXCEPT
                            !._changes = parse.changes, !._no_trailer = TRUE])
             /\ BlockStr(parse'._blocks[Len(parse'._blocks)]).exc = "none"
             /\ Tail(FileLines(
                  BlockStr(parse'._blocks[Len(parse'._blocks)]).text))
                = parse.changes
             /\ ParseText(file, [opts EXCEPT !.strict = TRUE]).exc
                = "ChangelogParseError"
             /\ Len(ParseText(file, [opts EXCEPT !.strict = TRUE])._blocks)
                <= Len(parse._blocks)]_vars

\* A lenient parse has ended with a block that has a heading and a note but
\* no trailer.
C3_Witness ==
  /\ ~opts.strict
  /\ parse.exhausted
  /\ parse.status = "finished"
  /\ parse._blocks # <<>>
  /\ LastBlock._no_trailer
  /\ LastBlock.package # None
  /\ LastBlock._changes # <<>>

\* C4: with max_blocks = N, a heading line met when N blocks are appended
\* makes parse_changelog return at once, in strict mode too, without error
\* and with the blocks as they are; the N blocks are the first N of the parse
\* without limit, and no line at or after that heading is examined.
C4_BlockLimit ==
  /\ [][(/\ ReadsLine
         /\ parse.state \in HeadingStates
         /\ opts.max_blocks # <<>>
         /\ Len(parse._blocks) = opts.max_blocks[1]
         /\ IsHeading(LastLine'))
        => /\ parse'.status = "capped"
           /\ parse'._blocks = parse._blocks]_vars
  /\ [](parse.status = "capped"
        => /\ Len(parse._blocks) = opts.max_blocks[1]
           /\ parse.exc = "none"
           /\ parse.warnings = <<>> \/ ~opts.strict
           /\ outcome = "returned"
           /\ parse._blocks =
                SubSeq(ParseText(file, [opts EXCEPT !.max_blocks = <<>>])._blocks,
                       1, opts.max_blocks[1]))
  /\ [][parse.status = "capped" => parse' = parse]_vars

\* A strict parse with a block limit has returned at a heading, and the rest
\* of the input holds a heading with an invalid pair.
C4_Witness ==
  /\ opts.strict
  /\ parse.status = "capped"
  /\ Len(parse._blocks) = 1
  /\ LastLine = "p (1) d; K=v, x"
  /\ IsHeading(file[Len(file) - 1])

\* C5: an empty trailer read in a change-body state is, without empty-author
\* mode, reported as a parse error (raised in strict mode, a warning and the
\* line dropped in lenient mode) and finalises nothing; with empty-author
\* mode it appends the block with its notes, author and date None and the
\* no-trailer flag clear, without error, and the state becomes
\* next_heading_or_eof.
C5_EmptyTrailer ==
  [][(/\ ReadsLine
      /\ parse.state \in ChangeBodyStates
      /\ IsEmptyTrailer(LastLine'))
     => /\ (~opts.allow_empty_author /\ opts.strict) =>
             /\ parse'.status = "raised"
             /\ parse'.exc = "ChangelogParseError"
             /\ parse'._blocks = parse._blocks
        /\ (~opts.allow_empty_author /\ ~opts.strict) =>
             /\ parse'.warnings =
                  Append(parse.warnings,
                         "Badly formatted trailer line: " \o LastLine')
             /\ parse' = [parse EXCEPT !.warnings = parse'.warnings]
        /\ opts.allow_empty_author =>
             /\ parse'.status = "running"
             /\ parse'.warnings = parse.warnings
             /\ parse'.state = next_heading_or_eof
             /\ Len(parse'._blocks) = Len(parse._blocks) + 1
             /\ SubSeq(parse'._blocks, 1, Len(parse._blocks)) = parse._blocks
             /\ parse'._blocks[Len(parse'._blocks)].author = None
             /\ parse'._blocks[Len(parse'._blocks)].date = None
             /\ ~parse'._blocks[Len(parse'._blocks)]._no_trailer
             /\ parse'._blocks[Len(parse'._blocks)]._changes = parse.changes
       ]_vars

\* In empty-author mode an empty trailer has closed a block that has notes.
C5_Witness ==
  /\ opts.allow_empty_author
  /\ parse.status = "running"
  /\ parse.state = next_heading_or_eof
  /\ IsEmptyTrailer(LastLine)
  /\ LastBlock.author = None
  /\ LastBlock.date = None
  /\ ~LastBlock._no_trailer
  /\ LastBlock._changes # <<>>

\* A field the rendering needs is None: the package, the version, the
\* distributions, the urgency or the notes, or the author or the date of a
\* block that has a trailer.
MissingField(b) ==
  \/ b.package = None
  \/ b._raw_version = None
  \/ b.distributions = None
  \/ b.urgency = None
  \/ b._changes = NoList
  \/ ~b._no_trailer /\ (b.author = None \/ b.date = None)

\* The block made by the last operation, a new_block.
NewestBlock == parse._blocks[1]

\* C6 as stated: rendering a block raises ChangelogCreateError exactly when
\* one of the needed fields is None, a block with the no-trailer flag
\* renders without trailer line, and a block constructed without the urgency
\* does not render.
C6_UnsetFieldsRaise ==
  /\ \A i \in 1..Len(parse._blocks) :
       BlockStr(parse._blocks[i]).exc = "ChangelogCreateError"
         <=> MissingField(parse._blocks[i])
  /\ (call.op = "new_block" /\ call.kw.urgency = None)
       => BlockStr(NewestBlock).exc = "ChangelogCreateError"

\* C6 as amended: rendering a block raises ChangelogCreateError, and nothing
\* else, exactly when the package, the version, the distributions, the
\* urgency or the notes is None, or the block has the no-trailer flag clear
\* and the author or the date is None; a block that renders has its heading,
\* its notes, its trailer unless the no-trailer flag is set, and its trailing
\* lines; a block constructed without one of the fields has it None, except
\* for the urgency, which is then "unknown", so that such a block renders
\* when nothing else is missing.
C6_RenderRaises ==
  /\ \A i \in 1..Len(parse._blocks) :
       LET b == parse._blocks[i]
       IN /\ BlockStr(b).exc \in {"none", "ChangelogCreateError"}
          /\ BlockStr(b).exc = "ChangelogCreateError" <=> MissingField(b)
          /\ BlockStr(b).exc = "none" =>
               Tail(FileLines(BlockStr(b).text)) =
                 b._changes
                 \o (IF b._no_trailer THEN <<>>
                     ELSE <<" -- " \o b.author \o b._trailer_separator
                            \o b.date>>)
                 \o b._trailing
  /\ call.op = "new_block" =>
       /\ NewestBlock.package = call.kw.package
       /\ NewestBlock._raw_version = call.kw.version
       /\ NewestBlock.distributions = call.kw.distributions
       /\ NewestBlock._changes = call.kw.changes
       /\ NewestBlock.author = call.kw.author
       /\ NewestBlock.date = call.kw.date
       /\ NewestBlock.urgency =
            IF call.kw.urgency = None THEN "unknown" ELSE call.kw.urgency
       /\ ~NewestBlock._no_trailer

\* A Changelog that had no block has been rendered without exception: its
\* block was constructed by new_block without the urgency.
C6_Witness ==
  /\ call.op = "str"
  /\ call.exc = "none"
  /\ parse.status = "empty"
  /\ parse._blocks # <<>>
  /\ NewestBlock.urgency = "unknown"

\* The line is blank: blankline matches it.
IsBlank(line) == Match(blankline, line).ok

\* The number of blank notes at the end of notes.
BlankTail(notes) ==
  CHOOSE k \in 0..Len(notes) :
    /\ \A i \in (Len(notes) - k + 1)..Len(notes) : IsBlank(notes[i])
    /\ k < Len(notes) => ~IsBlank(notes[Len(notes) - k])

\* C12: add_change(line) on a block that has notes puts the line right after
\* the last note that is not blank, before the blank notes that end the
\* sequence, and keeps every note in its order, so that the sequence grows by
\* one; on a block without notes, or with blank notes only, the line is the
\* last of the sequence.
C12_NoteBeforeBlankTail ==
  [][(call'.op = "add_change" /\ call'.exc = "none")
     => LET old == parse._blocks[1]._changes
            new == parse'._blocks[1]._changes
            line == call'.kw.changes[1]
        IN IF old = NoList THEN new = <<line>>
           ELSE /\ Len(new) = Len(old) + 1
                /\ IF BlankTail(old) = Len(old)
                   THEN new = Append(old, line)
                   ELSE new = SubSeq(old, 1, Len(old) - BlankTail(old))
                              \o <<line>>
                              \o SubSeq(old, Len(old) - BlankTail(old) + 1,
                                        Len(old))]_vars

\* add_change has put a note between a note and the blank line that ends the
\* notes.
C12_Witness ==
  /\ call.op = "add_change"
  /\ call.exc = "none"
  /\ NewestBlock._changes = <<"  * c", "  * d", "">>

\* The input has no line or blank lines only.
BlankInput == \A i \in 1..Len(file) : IsBlank(file[i])

\* C13: a lenient parse of an input without lines, or with blank lines only,
\* given as a string or as the sequence of its lines, returns without
\* exception and leaves no block and blank lines only in
\* initial_blank_lines; the strict parse of the empty string raises
\* ChangelogParseError with the message of the empty file.
C13_EmptyInput ==
  (parse.exhausted /\ BlankInput) =>
    /\ ~opts.strict =>
         /\ parse.exc = "none"
         /\ parse._blocks = <<>>
         /\ \A i \in 1..Len(parse.initial_blank_lines) :
              IsBlank(parse.initial_blank_lines[i])
    /\ (opts.strict /\ opts.basestring /\ file = <<>>) =>
         /\ parse.exc = "ChangelogParseError"
         /\ parse.message = "Empty changelog file."

\* The block b with its trailing lines left out of the comparison.
Entry(b) == [b EXCEPT !._trailing = <<>>]

\* The strict parse of the input read so far.
StrictParse == ParseText(file, [opts EXCEPT !.strict = TRUE])

\* C14: a lenient parse raises nothing; it goes through every line of the
\* input up to its end, or up to the heading at which the block limit stops
\* it, and returns; what the strict parse of the same input raises is the
\* first of its warnings, and it has warnings only when the strict parse
\* raises; a step never removes a warning, and leaves the heading fields, the
\* notes and the trailer of every block appended before it as they were.
C14_LenientWarns ==
  /\ [](~opts.strict =>
          /\ parse.exc = "none"
          /\ parse.status # "raised"
          /\ outcome \in {"pending", "returned"}
          /\ parse.exhausted =>
               /\ parse.status \in {"finished", "empty", "capped"}
               /\ StrictParse.exc \in {"none", "ChangelogParseError"}
               /\ (parse.status # "capped" /\ StrictParse.exc = "none")
                    => parse.warnings = <<>>
               /\ StrictParse.exc # "none" =>
                    /\ parse.warnings # <<>>
                    /\ parse.warnings[1] = StrictParse.message)
  /\ [][(~opts.strict /\ ReadsLine) =>
          /\ parse'.status \in {"running", "capped"}
          /\ Len(parse'.warnings) >= Len(parse.warnings)
          /\ SubSeq(parse'.warnings, 1, Len(parse.warnings)) = parse.warnings
          /\ Len(parse'._blocks) >= Len(parse._blocks)
          /\ \A i \in 1..Len(parse._blocks) :
               Entry(parse'._blocks[i]) = Entry(parse._blocks[i])]_vars

\* A lenient parse has appended a block without warning, met a violation
\* after it, and reached the end of the input.
C14_Witness ==
  /\ ~opts.strict
  /\ parse.exhausted
  /\ parse.status = "finished"
  /\ Len(file) >= 3
  /\ file[1] = "p (1) d; urgency=low"
  /\ file[2] = " -- A <e>  1 J 2000 1:00:00 +0000"
  /\ parse.warnings # <<>>
  /\ parse._blocks[1].author = "A <e>"

\* ---------------------------------------------------------------------------
\* The accessors of a Changelog of several blocks (SpecDoc)
\* ---------------------------------------------------------------------------

\* The attributes of a block that the Changelog reads without conversion.
PlainAttrs == {"package", "distributions", "urgency", "author", "date"}

\* The value the last operation gave the newest block for an attribute it
\* names: the argument of the setter, the keyword of new_block, or the field
\* of the first heading of the text parsed.
Given(attr) ==
  IF call.op = "set" THEN call.kw[attr]
  ELSE IF call.op = "new_block"
  THEN IF attr = "urgency" /\ ~Truthy(call.kw.urgency) THEN "unknown"
       ELSE call.kw[attr]
  ELSE IF attr = "package" THEN "p"
  ELSE IF attr = "distributions" THEN "d"
  ELSE IF attr = "urgency" THEN "low"
  ELSE IF attr = "author" THEN "A <e>"
  ELSE "1 J 2000 1:00:00 +0000"

\* C15: whenever the Changelog has a block, package, distributions, urgency,
\* author and date read the fields of the block at index 0, version is the
\* Version made of the text that block keeps, full_version, epoch,
\* upstream_version and debian_version are the attributes of that Version, and
\* str(version) is full_version; after a setter, a new_block or a parse the
\* accessors read what that operation gave the newest block.
C15_AccessorsReadNewest ==
  parse._blocks # <<>> =>
    LET newest == parse._blocks[1]
        made == NewVersion(PyStr(newest._raw_version))
    IN /\ \A name \in PlainAttrs :
            Get(parse, name) = [value |-> newest[name], exc |-> "none"]
       /\ Get(parse, "version") = [value |-> made.v, exc |-> made.exc]
       /\ made.exc = "none" =>
            /\ \A name \in ComponentAttrs \cup {"full_version"} :
                 Get(parse, name) = [value |-> made.v[name], exc |-> "none"]
            /\ VersionStr(Get(parse, "version").value)
                 = Get(parse, "full_version").value
            /\ Get(parse, "full_version").value = PyStr(newest._raw_version)
       /\ call.op \in {"Changelog", "parse_changelog", "new_block"} =>
            \A name \in PlainAttrs : Get(parse, name).value = Given(name)
       /\ call.op = "set" =>
            \A name \in PlainAttrs :
              call.kw[name] # None => Get(parse, name).value = Given(name)
       /\ call.op = "new_block" =>
            Get(parse, "full_version").value = PyStr(call.kw.version)
       /\ call.op \in {"Changelog", "parse_changelog"} =>
            Get(parse, "full_version").value = "1"

\* A setter has changed the newest of three blocks, the older ones keep other
\* values, and the accessor reads the new one.
C15_Witness ==
  /\ call.op = "set"
  /\ call.kw.package = "r"
  /\ Len(parse._blocks) = 3
  /\ parse._blocks[3].package = "p"
  /\ Get(parse, "package").value = "r"
  /\ Get(parse, "full_version").value = "10"

\* C16: a setter or add_change of the Changelog changes the block at index 0
\* only: the number of blocks, every other block (heading fields, notes and
\* trailing lines) and initial_blank_lines stay as they were.
C16_OnlyNewestChanges ==
  [][call'.op \in {"set", "add_change"} =>
       /\ Len(parse'._blocks) = Len(parse._blocks)
       /\ \A i \in 2..Len(parse._blocks) : parse'._blocks[i] = parse._blocks[i]
       /\ parse'.initial_blank_lines = parse.initial_blank_lines]_vars

\* C17: new_block puts the block made of its keyword arguments at index 0,
\* with the one trailing line "", the Changelog has one block more, and every
\* block that was there is unchanged, one position further.
C17_NewBlockInFront ==
  [][call'.op = "new_block" =>
       /\ Len(parse'._blocks) = Len(parse._blocks) + 1
       /\ parse'._blocks[1]._trailing = <<"">>
       /\ parse'._blocks[1]._raw_version = call'.kw.version
       /\ parse'._blocks[1]._changes = call'.kw.changes
       /\ \A name \in {"package", "distributions", "author", "date"} :
            parse'._blocks[1][name] = call'.kw[name]
       /\ \A i \in 1..Len(parse._blocks) :
            parse'._blocks[i + 1] = parse._blocks[i]
       /\ parse'.initial_blank_lines = parse.initial_blank_lines]_vars

\* new_block has put a block in front of the two blocks parsed from the text.
C17_Witness ==
  /\ call.op = "new_block"
  /\ call.kw.package = "q"
  /\ Len(parse._blocks) = 3
  /\ parse._blocks[1].package = "q"
  /\ parse._blocks[1]._trailing = <<"">>
  /\ parse._blocks[2]._raw_version = "1"
  /\ parse._blocks[3]._raw_version = "0"

\* C18, as stated: no operation on a Changelog leaves it with fewer blocks
\* than it had.
C18_NeverFewer ==
  [][Len(parse'._blocks) >= Len(parse._blocks)]_vars

\* The heading lines of a text.
Headings(ls) == {i \in DOMAIN ls : ReMatch("topline", ls[i]).ok}

\* C18, as the code has it: new_block adds one block, the setters, add_change
\* and str() keep the number of blocks, and parse_changelog on a Changelog
\* that has blocks drops them and leaves the blocks of the text it is given,
\* which may be fewer.
C18_OnlyParseRebuilds ==
  [][/\ call'.op = "new_block" =>
          Len(parse'._blocks) = Len(parse._blocks) + 1
     /\ call'.op \in {"set", "add_change", "str"} =>
          Len(parse'._blocks) = Len(parse._blocks)
     /\ call'.op = "parse_changelog" =>
          Len(parse'._blocks) = Cardinality(Headings(file'))]_vars

\* A Changelog that has had two operations, none of which removes a block, is
\* parsed again and has the one block of the text.
C18_Witness ==
  /\ call.op = "parse_changelog"
  /\ call.n = 3
  /\ Len(file) = 3
  /\ Len(parse._blocks) = 1

\* ---------------------------------------------------------------------------
\* set_version with a string and with a Version (SpecEdit)
\* ---------------------------------------------------------------------------

\* Texts of the version grammar: with and without epoch and debian_version.
VersionForms == {"1:1-1", "0:1", "1-1", "1"}

\* The argument of set_version: the text s, and the Version made of s.
AsString(s) == [type |-> "str", value |-> s]
AsVersion(s) == [type |-> "Version", value |-> NewVersion(s).v]

\* C19: on any Changelog, set_version with a text S of the version grammar
\* and set_version with Version(S) leave the same Changelog; when there is a
\* block, its version is then a Version equal to Version(S), with the same
\* full_version, epoch, upstream_version and debian_version; and after either
\* call the accessors read the components of the text set.
C19_SameFromStringOrVersion ==
  /\ \A s \in VersionForms :
       /\ NewVersion(s).exc = "none"
       /\ set_version(parse, AsString(s)) = set_version(parse, AsVersion(s))
       /\ parse._blocks # <<>> =>
            /\ set_version(parse, AsVersion(s)).exc = "none"
            /\ Get(set_version(parse, AsVersion(s)).cl, "version")
                 = [value |-> NewVersion(s).v, exc |-> "none"]
            /\ Get(set_version(parse, AsString(s)).cl, "version")
                 = [value |-> NewVersion(s).v, exc |-> "none"]
  /\ (call.op \in {"set_version", "set_version Version"}
      /\ call.exc = "none") =>
       /\ Get(parse, "version")
            = [value |-> NewVersion(call.kw.version).v, exc |-> "none"]
       /\ \A name \in VersionAttrs :
            Get(parse, name).value = NewVersion(call.kw.version).v[name]
       /\ Get(parse, "full_version").value = call.kw.version

\* set_version has been called with the Version made of "1:1-1", and the
\* Changelog has the version that set_version with the string gives.
C19_Witness ==
  /\ call.op = "set_version Version"
  /\ call.exc = "none"
  /\ ver.full_version = "1:1-1"
  /\ Get(parse, "epoch").value = "1"
  /\ Get(parse, "upstream_version").value = "1"
  /\ Get(parse, "debian_version").value = "1"
  /\ parse = set_version(parse, AsString("1:1-1")).cl

\* ---------------------------------------------------------------------------
\* The end of the input (Spec)
\* ---------------------------------------------------------------------------

\* The step at which the input ends: the parse was still running.
InputEnds == parse.status = "running" /\ ~parse.exhausted /\ parse'.exhausted

\* The states in which the end of the input leaves the document incomplete.
IncompleteStates ==
  {first_heading, start_of_change_data, more_changes_or_trailer}

\* The end of the input is reported as an error: ChangelogParseError in
\* strict mode, one more warning in lenient mode.
EndReported ==
  IF opts.strict
  THEN parse'.status = "raised" /\ parse'.exc = "ChangelogParseError"
  ELSE Len(parse'.warnings) = Len(parse.warnings) + 1

\* The text of the error at the end of the input: a string that is empty or
\* all whitespace is reported as an empty file, every other input names the
\* state.
EndMessage ==
  IF opts.basestring /\ Strip(FileText(file)) = ""
  THEN "Empty changelog file."
  ELSE "Found eof where expected " \o parse.state

\* C20: when the input ends while the parse is running, an error is reported
\* exactly when the state is "first heading", "start of change data" or "more
\* change data or trailer"; otherwise the state is "next heading of EOF", or
\* "slurp to end" entered from it, the parse finishes without error or
\* warning and the blocks are the ones it had.
C20_EndOfInput ==
  [][InputEnds =>
       /\ EndReported <=> parse.state \in IncompleteStates
       /\ parse.state \in IncompleteStates =>
            IF opts.strict THEN parse'.message = EndMessage
            ELSE parse'.warnings[Len(parse'.warnings)] = EndMessage
       /\ parse.state \notin IncompleteStates =>
            /\ \/ parse.state = next_heading_or_eof
               \/ /\ parse.state = slurp_to_end
                  /\ parse.old_state = next_heading_or_eof
            /\ parse'.status = "finished"
            /\ parse'.exc = "none"
            /\ parse'.warnings = parse.warnings
            /\ parse'._blocks = parse._blocks]_vars

\* The input has ended in "slurp to end" entered from "next heading of EOF"
\* and was accepted: one block, no warning.
C20_Witness ==
  /\ parse.exhausted
  /\ parse.status = "finished"
  /\ parse.state = slurp_to_end
  /\ parse.old_state = next_heading_or_eof
  /\ parse.warnings = <<>>
  /\ Len(parse._blocks) = 1

\* ---------------------------------------------------------------------------
\* The lines of the input and where they go (Spec)
\* ---------------------------------------------------------------------------

\* The line the step has read.
ReadLineText == file'[Len(file')]

\* The step has taken the line as the heading of the block in progress.
TakenAsHeading ==
  /\ parse.state \in HeadingStates
  /\ ReMatch("topline", ReadLineText).ok
  /\ parse'.state = start_of_change_data

\* The step has taken the line as the trailer of the block it appends.
TakenAsTrailer ==
  /\ parse.state \in ChangeBodyStates
  /\ Len(parse'._blocks) = Len(parse._blocks) + 1
  /\ parse'.state = next_heading_or_eof

\* The step has put the line at the end of initial_blank_lines, of the
\* pending notes, or of the trailing lines of the last block.
StoredInLeading ==
  parse'.initial_blank_lines = Append(parse.initial_blank_lines, ReadLineText)
StoredInNotes == parse'.changes = Append(parse.changes, ReadLineText)
StoredInTrailing ==
  /\ parse._blocks # <<>>
  /\ Len(parse'._blocks) = Len(parse._blocks)
  /\ parse'._blocks[Len(parse._blocks)]._trailing
       = Append(LastBlock._trailing, ReadLineText)

\* C21: in lenient mode every line the loop goes through is taken as a
\* heading or as a trailer, or is put, as it is, at the end of
\* initial_blank_lines, of the notes or of the trailing lines of the last
\* block.
C21_NoLineLost ==
  [][(~opts.strict /\ ReadsLine /\ parse'.status = "running") =>
       \/ TakenAsHeading
       \/ TakenAsTrailer
       \/ StoredInLeading
       \/ StoredInNotes
       \/ StoredInTrailing]_vars

\* The parse q is the parse p with the line put at the end of the trailing
\* lines of its last block, in slurp_to_end, and nothing else changed: no
\* block more, no error, no warning.
Slurped(p, q, line) ==
  /\ p._blocks # <<>>
  /\ q = [p EXCEPT !._blocks[Len(p._blocks)]._trailing = Append(@, line),
                   !.state = slurp_to_end,
                   !.old_state = next_heading_or_eof]

\* C22: a vim or emacs line or a line of an old format read in "next heading
\* of EOF" puts the parse in "slurp to end"; from then on every line, a
\* heading or a trailer too, is appended to the trailing lines of the last
\* block, the state stays "slurp to end", no block is opened or appended and
\* nothing is reported, in strict mode as in lenient mode, and the end of the
\* input is accepted.
C22_SlurpAbsorbs ==
  /\ [][ReadsLine =>
          /\ (parse.state = next_heading_or_eof
              /\ ReMatch("vim_variables", ReadLineText).ok)
               => Slurped(parse, parse', ReadLineText)
          /\ parse.state = slurp_to_end
               => /\ parse.old_state = next_heading_or_eof
                  /\ Slurped(parse, parse', ReadLineText)]_vars
  /\ []((parse.status = "running" /\ parse.state = next_heading_or_eof) =>
          \A line \in SlurpLines :
            /\ Slurped(parse, ParseLine(parse, line, opts), line)
            /\ \A next \in Lines :
                 Slurped(ParseLine(parse, line, opts),
                         ParseLine(ParseLine(parse, line, opts), next, opts),
                         next))
  /\ []((parse.state = slurp_to_end /\ parse.exhausted) =>
          /\ parse.status = "finished"
          /\ parse.exc = "none")

\* A strict parse has met a vim line after a block and then a heading line:
\* both are trailing lines of the block, and the parse has ended without
\* error.
C22_Witness ==
  /\ opts.strict
  /\ parse.exhausted
  /\ parse.status = "finished"
  /\ parse.state = slurp_to_end
  /\ Len(file) = 4
  /\ file[3] = "vim:x"
  /\ file[4] = "p (1) d; urgency=low"
  /\ Len(parse._blocks) = 1
  /\ parse._blocks[1]._trailing = <<"vim:x", "p (1) d; urgency=low">>
  /\ parse.warnings = <<>>

\* The line is a trailer the parse accepts under the options: a trailer with
\* author and date, with a separator of two spaces or in lenient mode, or a
\* trailer without them when allow_empty_author is set.
AcceptedTrailer(line) ==
  /\ ~ReMatch("change", line).ok
  /\ \/ /\ ReMatch("endline", line).ok
        /\ Group(ReMatch("endline", line), line, 3) = "  " \/ ~opts.strict
     \/ /\ ~ReMatch("endline", line).ok
        /\ ReMatch("endline_nodetails", line).ok
        /\ opts.allow_empty_author

\* The message of a line that is not expected in the state of the parse.
Unexpected(line) ==
  "Unexpected line while looking for " \o parse.state \o ": " \o line

\* C23: in "start of change data" and "more change data or trailer" a line
\* ends the block exactly when it is an accepted trailer; every other line
\* leaves the number of blocks and the heading of the block in progress as
\* they were and the state one of the two; a heading line there is reported
\* as unexpected, ChangelogParseError in strict mode, and in lenient mode a
\* warning with the line appended to the pending notes.
C23_OnlyTrailerEndsBlock ==
  [][(ReadsLine /\ parse.state \in ChangeBodyStates) =>
       /\ AcceptedTrailer(ReadLineText) <=>
            Len(parse'._blocks) = Len(parse._blocks) + 1
       /\ AcceptedTrailer(ReadLineText) =>
            /\ parse'.state = next_heading_or_eof
            /\ parse'.status = "running"
       /\ ~AcceptedTrailer(ReadLineText) =>
            /\ parse'._blocks = parse._blocks
            /\ parse'.state \in ChangeBodyStates
            /\ parse'.current_block = parse.current_block
       /\ (\/ ReMatch("topline", ReadLineText).ok
           \/ ReMatch("vim_variables", ReadLineText).ok) =>
            /\ ~AcceptedTrailer(ReadLineText)
            /\ parse'.state = parse.state
            /\ IF opts.strict
               THEN /\ parse'.status = "raised"
                    /\ parse'.exc = "ChangelogParseError"
                    /\ parse'.message = Unexpected(ReadLineText)
                    /\ parse'.changes = parse.changes
               ELSE /\ parse'.status = "running"
                    /\ parse'.warnings
                         = Append(parse.warnings, Unexpected(ReadLineText))
                    /\ parse'.changes = Append(parse.changes, ReadLineText)]_vars

\* A lenient parse has met a second heading line before the trailer of the
\* first: the line is a note of the block, which is the only one.
C23_Witness ==
  /\ ~opts.strict
  /\ parse.exhausted
  /\ Len(file) = 4
  /\ file[1] = "p (1) d; urgency=low"
  /\ file[3] = "p (1) d; K=v, x"
  /\ file[4] = " -- A <e>  1 J 2000 1:00:00 +0000"
  /\ Len(parse._blocks) = 1
  /\ parse._blocks[1]._changes = <<file[2], file[3]>>
  /\ parse._blocks[1].other_pairs = <<>>

\* ---------------------------------------------------------------------------
\* Headings, trailers and blocks (Spec)
\* ---------------------------------------------------------------------------

\* The first line of ls that is a vim line, Len(ls) + 1 when there is none.
FirstVim(ls) ==
  IF \E i \in DOMAIN ls : ReMatch("vim_variables", ls[i]).ok
  THEN CHOOSE i \in DOMAIN ls :
         /\ ReMatch("vim_variables", ls[i]).ok
         /\ \A j \in 1..(i - 1) : ~ReMatch("vim_variables", ls[j]).ok
  ELSE Len(ls) + 1

\* The lines read before "slurp to end".
Parsed == IF parse.state = slurp_to_end
          THEN SubSeq(file, 1, FirstVim(file) - 1) ELSE file

\* The positions of the heading lines and of the trailer lines in ls.
HeadingsIn(ls) == {i \in DOMAIN ls : ReMatch("topline", ls[i]).ok}
TrailersIn(ls) ==
  {i \in DOMAIN ls : \/ ReMatch("endline", ls[i]).ok
                     \/ ReMatch("endline_nodetails", ls[i]).ok}

\* The k-th smallest element of the set S of numbers.
RECURSIVE Nth(_, _)
Nth(S, k) ==
  LET least == CHOOSE i \in S : \A j \in S : i <= j
  IN IF k = 1 THEN least ELSE Nth(S \ {least}, k - 1)

\* C24: a step of the loop appends a block exactly when it reads an accepted
\* trailer in a change-body state, and then one block; the end of the input
\* appends a block exactly in the lenient recovery; no step removes or
\* reorders blocks; while the parse runs it is in a change-body state exactly
\* when the block in progress has a heading; and after a strict parse that
\* has succeeded the heading lines, the trailer lines and the blocks are
\* equally many, the k-th block being the one of the k-th heading.
C24_BlocksFollowTrailers ==
  /\ [][ReadsLine =>
          /\ Len(parse'._blocks) = Len(parse._blocks) + 1
               <=> (/\ parse.state \in ChangeBodyStates
                    /\ AcceptedTrailer(ReadLineText))
          /\ Len(parse'._blocks) \in
               {Len(parse._blocks), Len(parse._blocks) + 1}
          /\ \A i \in 1..Len(parse._blocks) :
               Entry(parse'._blocks[i]) = Entry(parse._blocks[i])]_vars
  /\ [][InputEnds =>
          /\ Len(parse'._blocks) = Len(parse._blocks) + 1
               <=> (/\ ~opts.strict
                    /\ parse.state \in IncompleteStates
                    /\ ~(opts.basestring /\ Strip(FileText(file)) = ""))
          /\ Len(parse'._blocks) \in
               {Len(parse._blocks), Len(parse._blocks) + 1}
          /\ \A i \in 1..Len(parse._blocks) :
               i <= Len(parse'._blocks)
               => parse'._blocks[i] = parse._blocks[i]]_vars
  /\ [](parse.status = "running" =>
          (parse.state \in ChangeBodyStates
             <=> parse.current_block.package # None))
  /\ []((opts.strict /\ parse.exhausted /\ parse.status = "finished") =>
          /\ Cardinality(HeadingsIn(Parsed)) = Len(parse._blocks)
          /\ Cardinality(TrailersIn(Parsed)) = Len(parse._blocks)
          /\ \A k \in 1..Len(parse._blocks) :
               /\ Nth(HeadingsIn(Parsed), k) < Nth(TrailersIn(Parsed), k)
               /\ k > 1 => Nth(TrailersIn(Parsed), k - 1)
                             < Nth(HeadingsIn(Parsed), k)
               /\ parse._blocks[k]._raw_version
                    = Group(ReMatch("topline",
                                    Parsed[Nth(HeadingsIn(Parsed), k)]),
                            Parsed[Nth(HeadingsIn(Parsed), k)], 2))

\* A strict parse of two entries has succeeded with two blocks.
C24_Witness ==
  /\ opts.strict
  /\ parse.exhausted
  /\ parse.status = "finished"
  /\ Len(file) = 4
  /\ HeadingsIn(file) = {1, 3}
  /\ TrailersIn(file) = {2, 4}
  /\ Len(parse._blocks) = 2
  /\ parse._blocks[2]._raw_version = "1"

\* While the parse runs in "first heading" or "next heading of EOF" the
\* pending notes are empty and the block in progress is a new ChangeBlock().
FreshBetweenBlocks ==
  (parse.status = "running" /\ parse.state \in HeadingStates) =>
    /\ parse.changes = <<>>
    /\ parse.current_block = ChangeBlock(NoArgs)

\* C25: every line read between the heading and the trailer of a block is
\* appended to the pending notes, the trailer gives the block the pending
\* notes as they are and leaves an empty list and a new block in progress,
\* and between two blocks the pending notes are empty and the block in
\* progress is new.
C25_NotesSinceHeading ==
  /\ [][(/\ ReadsLine
         /\ parse.state \in ChangeBodyStates
         /\ parse'.status = "running") =>
          IF AcceptedTrailer(ReadLineText)
          THEN /\ parse'._blocks[Len(parse'._blocks)]._changes = parse.changes
               /\ parse'.changes = <<>>
               /\ parse'.current_block = ChangeBlock(NoArgs)
          ELSE parse'.changes = Append(parse.changes, ReadLineText)]_vars
  /\ []FreshBetweenBlocks

\* ---------------------------------------------------------------------------
\* Blank lines, keywords and comments between the blocks (Spec)
\* ---------------------------------------------------------------------------

\* The line is blank, a CVS keyword or a comment.
IsKeptLine(line) ==
  \/ ReMatch("blankline", line).ok
  \/ ReMatch("cvs_keyword", line).ok
  \/ ReMatch("comments", line).ok
  \/ ReMatch("more_comments", line).ok

\* The parse q is the parse p with the line at the end of
\* initial_blank_lines, when p is before the first heading, and at the end of
\* the trailing lines of the last block otherwise; state, blocks in number,
\* warnings and everything else are those of p.
Kept(p, q, line) ==
  IF p.state = first_heading
  THEN q = [p EXCEPT !.initial_blank_lines = Append(@, line)]
  ELSE /\ p._blocks # <<>>
       /\ q = [p EXCEPT !._blocks[Len(p._blocks)]._trailing = Append(@, line)]

\* C26: in "first heading" and "next heading of EOF" a blank line, a CVS
\* keyword or a comment leaves the state and the number of blocks as they
\* are and reports nothing, in strict mode too; it is appended to
\* initial_blank_lines before the first heading and to the trailing lines of
\* the last block after it.
C26_KeptBetweenBlocks ==
  /\ [][(/\ ReadsLine
         /\ parse.state \in HeadingStates
         /\ IsKeptLine(ReadLineText)) =>
          /\ Kept(parse, parse', ReadLineText)
          /\ parse'.state = parse.state
          /\ parse'.status = "running"
          /\ parse'.warnings = parse.warnings
          /\ Len(parse'._blocks) = Len(parse._blocks)]_vars
  /\ []((parse.status = "running" /\ parse.state \in HeadingStates) =>
          \A line \in KeptLines :
            /\ IsKeptLine(line)
            /\ Kept(parse, ParseLine(parse, line, opts), line))

\* A strict parse has read a comment before the heading and one after the
\* trailer: the first is in initial_blank_lines, the second a trailing line of
\* the block.
C26_Witness ==
  /\ opts.strict
  /\ parse.exhausted
  /\ parse.status = "finished"
  /\ file = <<"# c", "p (1) d; urgency=low",
              " -- A <e>  1 J 2000 1:00:00 +0000", "# c">>
  /\ parse.initial_blank_lines = <<"# c">>
  /\ Len(parse._blocks) = 1
  /\ parse._blocks[1]._trailing = <<"# c">>

\* ---------------------------------------------------------------------------
\* A trailer with one space between author and date (Spec)
\* ---------------------------------------------------------------------------

\* The line is a trailer with author and date whose separator is not "  ".
BadSeparator(line) ==
  /\ ~ReMatch("change", line).ok
  /\ ReMatch("endline", line).ok
  /\ Group(ReMatch("endline", line), line, 3) # "  "

\* The last line of the text that rendering the block b gives.
LastRendered(b) ==
  FileLines(BlockStr(b).text)[Len(FileLines(BlockStr(b).text))]

\* C27: a trailer with author and date whose separator is not two spaces,
\* read in a block, is in lenient mode warned about and accepted: the block
\* is appended with its author and date, it keeps the separator of the line,
\* and rendering it gives the trailer line as it was read; in strict mode
\* the line raises ChangelogParseError and no block is appended.
C27_SeparatorKept ==
  [][(/\ ReadsLine
      /\ parse.state \in ChangeBodyStates
      /\ BadSeparator(ReadLineText)) =>
       IF opts.strict
       THEN /\ parse'.status = "raised"
            /\ parse'.exc = "ChangelogParseError"
            /\ parse'.message
                 = "Badly formatted trailer line: " \o ReadLineText
            /\ parse'._blocks = parse._blocks
       ELSE /\ parse'.status = "running"
            /\ parse'.warnings
                 = Append(parse.warnings,
                          "Badly formatted trailer line: " \o ReadLineText)
            /\ Len(parse'._blocks) = Len(parse._blocks) + 1
            /\ LET new == parse'._blocks[Len(parse'._blocks)]
                   m == ReMatch("endline", ReadLineText)
               IN /\ new.author = Group(m, ReadLineText, 1) \o " <"
                                    \o Group(m, ReadLineText, 2) \o ">"
                  /\ new.date = Group(m, ReadLineText, 4)
                  /\ new._trailer_separator = Group(m, ReadLineText, 3)
                  /\ new._trailer_separator # "  "
                  /\ ~new._no_trailer
                  /\ BlockStr(new).exc = "none"
                  /\ LastRendered(new) = ReadLineText]_vars

\* A lenient parse has accepted a trailer with one space before the date and
\* renders the text it has read.
C27_Witness ==
  /\ ~opts.strict
  /\ parse.exhausted
  /\ parse.status = "finished"
  /\ file = <<"p (1) d; urgency=low", "  * c",
              " -- A <e> 1 J 2000 1:00:00 +0000">>
  /\ Len(parse._blocks) = 1
  /\ parse._blocks[1]._trailer_separator = " "
  /\ parse.warnings
       = <<"Badly formatted trailer line:  -- A <e> 1 J 2000 1:00:00 +0000">>
  /\ ChangelogStr(parse).text = FileText(file)

\* ---------------------------------------------------------------------------
\* A string and the sequence of its lines (Spec)
\* ---------------------------------------------------------------------------

\* The text of the lines read, with a newline after each line, and with
\* newlines between the lines only.
WithNewline == FileText(file)
WithoutNewline == Join(file, "\n")

\* s.split("\n") without the empty element after a final newline.
LinesOf(s) ==
  IF s # "" /\ Char(s, Len(s)) = "\n"
  THEN SubSeq(Split(s, "\n"), 1, Len(Split(s, "\n")) - 1)
  ELSE Split(s, "\n")

\* What a parse leaves: blocks, initial_blank_lines, exception and message,
\* and warnings.
Result(q) ==
  [_blocks |-> q._blocks, initial_blank_lines |-> q.initial_blank_lines,
   exc |-> q.exc, message |-> q.message, warnings |-> q.warnings]

\* What is compared for non-blank texts.
SameForText ==
  Strip(WithNewline) # "" =>
    /\ Result(ParseString(WithNewline, opts))
         = Result(ParseList(LinesOf(WithNewline), opts))
    /\ Char(WithoutNewline, Len(WithoutNewline)) # "\n" =>
         Result(ParseString(WithoutNewline, opts))
           = Result(ParseString(WithNewline, opts))

\* C28: parse_changelog on a string and on the sequence of the lines of the
\* string leave the same blocks and initial_blank_lines and the same error,
\* and a string that does not end in a newline is parsed as the string with
\* the newline added.
C28_StringAsLines ==
  /\ Result(ParseString(WithNewline, opts))
       = Result(ParseList(LinesOf(WithNewline), opts))
  /\ (WithoutNewline # "" /\ Char(WithoutNewline, Len(WithoutNewline)) # "\n")
       => Result(ParseString(WithoutNewline, opts))
            = Result(ParseString(WithNewline, opts))

\* ---------------------------------------------------------------------------
\* The versions of the blocks (SpecHeadings)
\* ---------------------------------------------------------------------------

\* The version text between the parentheses of the k-th heading of the file.
HeadingVersion(k) ==
  Group(ReMatch("topline", file[Nth(HeadingsIn(file), k)]),
        file[Nth(HeadingsIn(file), k)], 2)

\* C29: after a strict parse that has succeeded, get_versions returns without
\* exception one Version for every block, the k-th with the version text of
\* the k-th heading as full_version, and reading the version of a block
\* raises nothing.
C29_VersionPerBlock ==
  (parse.status = "finished" /\ parse.exc = "none") =>
    /\ call.op = "get_versions" =>
         /\ call.exc = "none"
         /\ Len(call.value) = Len(parse._blocks)
         /\ \A k \in 1..Len(parse._blocks) :
              call.value[k].full_version = HeadingVersion(k)
    /\ call.op = "version" =>
         /\ call.exc = "none"
         /\ call.value.full_version = HeadingVersion(call.block)

\* The heading line of the k-th block.
HeadingOf(k) == file[Nth(HeadingsIn(file), k)]

\* The pairs other than the urgency are kept with the keys as they are
\* spelled, in the order of the heading.
PairsAsSpelled ==
  \A k \in 1..Len(parse._blocks) :
    HeadingOf(k)
      = "p (" \o parse._blocks[k]._raw_version \o ") d; urgency=low"
        \o PairsText(parse._blocks[k].other_pairs)

\* C30: the pairs of a heading other than the urgency are kept with their
\* keys as spelled, and str() of the block gives them after the urgency as
\* ", key=value" in the order of the heading: the first line rendered is the
\* heading line that was parsed.
C30_PairsInHeadingOrder ==
  /\ PairsAsSpelled
  /\ (call.op = "str" /\ call.exc = "none") =>
       FileLines(call.value)[1] = HeadingOf(call.block)

\* ---------------------------------------------------------------------------
\* The blocks the parse appends (Spec)
\* ---------------------------------------------------------------------------

\* The block b has the three fields a heading line sets.
HeadingSet(b) ==
  /\ b.package # None
  /\ b._raw_version # None
  /\ b.distributions # None

\* A block appended by a strict parse has the fields of a heading set, and so
\* has a block appended by a line of the input in either mode.
AppendedByLine ==
  [][(\E line \in Lines : file' = Append(file, line)) \/ opts.strict =>
       \A k \in 1..Len(parse'._blocks) : HeadingSet(parse'._blocks[k])]_vars

\* C31: every block that parse_changelog has appended was opened by a heading
\* line: its package, raw version and distributions are set, in strict and in
\* lenient mode, for any input.
C31_BlocksHaveHeading ==
  \A k \in 1..Len(parse._blocks) : HeadingSet(parse._blocks[k])

\* C32: whenever the parser is in "next heading of EOF" or in "slurp to end"
\* the document holds at least one block, and no sequence of input lines
\* makes the parser index an empty list of blocks: the lines kept as trailing
\* lines always have a last block to go to.
C32_BlockToAppendTo ==
  /\ parse.state \in {next_heading_or_eof, slurp_to_end} =>
       Len(parse._blocks) >= 1
  /\ parse.exc # "IndexError"

\* A line was kept as a trailing line of the last block in "next heading of
\* EOF", and the next one took the parser to "slurp to end".
C32_Witness ==
  /\ parse.state = slurp_to_end
  /\ parse.status = "running"
  /\ Len(parse._blocks) = 1
  /\ Len(LastBlock._trailing) = 2

\* C33: "slurp to end" is entered from "next heading of EOF" only: whenever
\* the state is "slurp to end" the remembered state is "next heading of EOF",
\* a line read in "slurp to end" leaves the pending notes as they are and
\* goes to the trailing lines of the last block, and the end of the input in
\* "slurp to end" ends the parse without error or warning.
C33_SlurpFromNextHeading ==
  /\ [](parse.state = slurp_to_end =>
          parse.old_state = next_heading_or_eof)
  /\ [][(parse.state = slurp_to_end /\ parse.status = "running") =>
          /\ parse'.changes = parse.changes
          /\ parse'.changes = <<>>
          /\ parse'.state = slurp_to_end
          /\ parse'.exc = "none"
          /\ parse'.warnings = parse.warnings
          /\ IF parse'.exhausted
             THEN /\ parse'.status = "finished"
                  /\ parse'._blocks = parse._blocks
             ELSE /\ parse'.status = "running"
                  /\ parse'._blocks =
                       [parse._blocks EXCEPT ![Len(parse._blocks)]._trailing =
                          Append(@, ReadLineText)]]_vars

\* The input has ended in "slurp to end" after a line that was read in that
\* state: the parse is finished with the two lines as trailing lines of the
\* block and no pending notes.
C33_Witness ==
  /\ parse.exhausted
  /\ parse.status = "finished"
  /\ parse.exc = "none"
  /\ parse.state = slurp_to_end
  /\ parse.changes = <<>>
  /\ Len(parse._blocks) = 1
  /\ Len(LastBlock._trailing) = 2
  /\ LastBlock._trailing[2] = file[Len(file)]

\* ---------------------------------------------------------------------------
\* The components an assignment leaves alone (SpecVersion)
\* ---------------------------------------------------------------------------

\* C34: a successful assignment of one component of a Version leaves the
\* other two components reading back what they read before the assignment,
\* for every starting Version and every value assigned.
C34_OthersKept ==
  [][(call'.op \in ComponentAttrs /\ call'.exc = "none") =>
       \A a \in ComponentAttrs \ {call'.op} : ver'[a] = ver[a]]_vars

\* ---------------------------------------------------------------------------
\* The normalised keys of the extra pairs (SpecHeadings)
\* ---------------------------------------------------------------------------

\* The items of the dictionary d as a set.
ItemsOf(d) == {d[i] : i \in 1..Len(d)}

\* The key with its first letter in upper case and the rest in lower case,
\* after "XS-" unless it starts with X, one of B, C and S, and a hyphen.
Normalised(key) ==
  LET cased == UpperChar(Head(key)) \o Lower(Tail(key))
  IN IF /\ Len(cased) >= 3
        /\ Char(cased, 1) = "X"
        /\ Char(cased, 2) \in {"b", "c", "s"}
        /\ Char(cased, 3) = "-"
     THEN cased
     ELSE "XS-" \o cased

\* other_keys_normalised leaves the block as it is.
PairsNotModified ==
  [][call'.op = "other_keys_normalised" => parse' = parse]_vars

\* C35: other_keys_normalised returns, for every extra pair of the heading of
\* the block, an entry with the value of the pair under the normalised key,
\* and nothing else.
C35_KeysNormalised ==
  call.op = "other_keys_normalised" =>
    /\ call.exc = "none"
    /\ ItemsOf(call.value)
         = {<<Normalised(item[1]), item[2]>> :
              item \in ItemsOf(parse._blocks[call.block].other_pairs)}

====
